---------------------------- MODULE Spec2Model ----------------------------
(***************************************************************************)
(* ZOCIE: multi-tenant chat-bot webhook backend (Shopify + SalesIQ).       *)
(*                                                                         *)
(* The repository holds three copies of the multi-tenant server, which     *)
(* differ in behaviour.  The model carries all three and the variable      *)
(* `variant` says which copy a behaviour runs:                             *)
(*    "copy"     src/server-copy.js                                        *)
(*    "fixed"    src/server-fixed.js                                       *)
(*    "part001"  src/unnamed/part_001 (second program, from line 521)      *)
(*                                                                         *)
(* Specifications:                                                         *)
(*    SpecMemory  one ConversationMemory object and calls of its methods   *)
(*    SpecIntent  detectIntent applied to message texts                    *)
(*    SpecOAuth   the OAuth start and callback routes                      *)
(*    Spec        the webhook route /api/zobot/:businessId, calls in flight *)
(*                interleaved at their awaits of I/O                       *)
(***************************************************************************)
EXTENDS Integers, Sequences, FiniteSets, TLC

VARIABLES
    variant,    \* which copy of the server runs
    memory,     \* SpecMemory: the ConversationMemory object [messages, context]
    added,      \* SpecMemory: every entry ever passed to addMessage, in call order
    lastCall,   \* SpecMemory: the last method call, its arguments, the context before it
    nRemember,  \* SpecMemory: number of remember calls made
    message,    \* SpecIntent: the message text handed to detectIntent
    classified, \* SpecIntent: what detectIntent returned for it, or NoResult
    env,        \* SpecOAuth: which of SHOPIFY_API_KEY, SHOPIFY_API_SECRET are set
    now,        \* SpecOAuth: Date.now(), in milliseconds
    oauthStates,    \* SpecOAuth: state -> { shop, timestamp }
    issuedAt,   \* SpecOAuth: the time each state token was issued, by token
    lastStart,  \* SpecOAuth: HTTP status of the last auth/start response
    callbacks,  \* SpecOAuth: the auth/callback requests, in arrival order
    businessDatabase,   \* SpecOAuth: businessId -> business data
    shopToBusinessMap,  \* SpecOAuth: shop domain -> businessId
    userSessions,   \* Spec: memoryKey -> the ConversationMemory object (its heap index)
    heap,       \* Spec: the ConversationMemory objects ever constructed
    store,      \* Spec: the persisted conversation records, by memoryKey
    pending,    \* Spec: saveToFile calls nobody awaits, not yet settled
    requests,   \* Spec: the webhook calls, in arrival order
    actionResult,   \* SpecBuild: the value handed to buildSalesIQResponse
    response,   \* SpecBuild: what buildSalesIQResponse made of it
    draftOrders,    \* SpecCart: the shop's draft orders, by id
    cartCtx,    \* SpecCart: context.email and context.draftOrderId of each chat user
    cartCall,   \* SpecCart: the add-to-cart call being handled
    ordersData, \* SpecTrack: the orders the Admin API returned, and the time since the first
    tracked,    \* SpecTrack: the status label and suggestions of the track_order reply
    backend,    \* SpecFiles: which persistence module is loaded
    conversations,  \* SpecFiles: the persisted conversation records, by file path or row key
    convCall    \* SpecFiles: the last saveConversationMemory or loadConversationMemory call

memVars == <<memory, added, lastCall, nRemember>>

intentVars == <<message, classified>>

oauthVars ==
    <<env, now, oauthStates, issuedAt, lastStart, callbacks, businessDatabase,
      shopToBusinessMap>>

hookVars == <<userSessions, heap, store, pending, requests>>

buildVars == <<actionResult, response>>

cartVars == <<draftOrders, cartCtx, cartCall>>

trackVars == <<ordersData, tracked>>

fileVars == <<backend, conversations, convCall>>

vars ==
    <<variant, memVars, intentVars, oauthVars, hookVars, buildVars, cartVars, trackVars,
      fileVars>>

\* the variables of the other specifications, which a specification leaves alone
notMemory == <<intentVars, oauthVars, hookVars, buildVars, cartVars, trackVars, fileVars>>

notIntent == <<memVars, oauthVars, hookVars, buildVars, cartVars, trackVars, fileVars>>

notOAuth == <<memVars, intentVars, hookVars, buildVars, cartVars, trackVars, fileVars>>

notHook == <<memVars, intentVars, oauthVars, buildVars, cartVars, trackVars, fileVars>>

notBuild == <<memVars, intentVars, oauthVars, hookVars, cartVars, trackVars, fileVars>>

notCart == <<memVars, intentVars, oauthVars, hookVars, buildVars, trackVars, fileVars>>

notTrack == <<memVars, intentVars, oauthVars, hookVars, buildVars, cartVars, fileVars>>

notFile ==
    <<memVars, intentVars, oauthVars, hookVars, buildVars, cartVars, trackVars>>

Variants == {"copy", "fixed", "part001"}

(***************************************************************************)
(* JavaScript values.  Every value is a record of one shape: k is the      *)
(* type tag, s the text of a string or number, m the own properties of an  *)
(* object or array (an array's properties are its indices "0", "1", ...).  *)
(***************************************************************************)
NoProps == [q \in {} |-> q]

JsNull == [k |-> "null", s |-> "", m |-> NoProps]

JsUndefined == [k |-> "undefined", s |-> "", m |-> NoProps]

JsStr(a) == [k |-> "str", s |-> a, m |-> NoProps]

JsNum(a) == [k |-> "num", s |-> a, m |-> NoProps]

JsObj(f) == [k |-> "map", s |-> "", m |-> f]

JsArr(f) == [k |-> "list", s |-> "", m |-> f]

JsTrue == [k |-> "bool", s |-> "true", m |-> NoProps]

\* typeof v === 'object' && v !== null
IsObject(v) == v.k \in {"map", "list"}

\* JavaScript truthiness: !!v
Truthy(v) ==
    CASE v.k \in {"null", "undefined"} -> FALSE
      [] v.k = "str" -> v.s # ""
      [] v.k = "num" -> v.s # "0"
      [] OTHER -> TRUE

\* The property name obj[v] uses: a string or number names itself, a plain
\* object converts to "[object Object]".
PropKey(v) ==
    CASE v.k = "str" -> v.s
      [] v.k = "num" -> v.s
      [] v.k = "null" -> "null"
      [] v.k = "undefined" -> "undefined"
      [] v.k = "map" -> "[object Object]"

\* obj[key]: a missing property reads as undefined
GetProp(props, key) == IF key \in DOMAIN props THEN props[key] ELSE JsUndefined

\* obj[key] = value
SetProp(props, key, value) == (key :> value) @@ props

\* { ...props, ...patch }
Spread(props, patch) == patch @@ props

(***************************************************************************)
(* ConversationMemory                                                      *)
(***************************************************************************)
MaxHistory == 50

\* constructor: this.messages = []; this.context = { email: null, ... }
NewContext_copy ==
    ("email" :> JsNull) @@ ("orderId" :> JsNull)
        @@ ("previousActions" :> JsArr(NoProps))

NewContext_fixed ==
    ("email" :> JsNull) @@ ("userName" :> JsNull)
        @@ ("previousActions" :> JsArr(NoProps))
        @@ ("lastIntent" :> JsNull) @@ ("userData" :> JsObj(NoProps))

NewContext_part001 ==
    ("email" :> JsNull) @@ ("previousActions" :> JsArr(NoProps))
        @@ ("lastIntent" :> JsNull) @@ ("userData" :> JsObj(NoProps))

NewContext(v) ==
    CASE v = "copy" -> NewContext_copy
      [] v = "fixed" -> NewContext_fixed
      [] v = "part001" -> NewContext_part001

NewMemory(v) == [messages |-> <<>>, context |-> NewContext(v)]

\* one history entry: { role, content, metadata / ...metadata, timestamp }
Entry(role, content, intent, ts) ==
    [role |-> role, content |-> content, intent |-> intent, timestamp |-> ts]

\* this.messages.slice(-n)
SliceLast(msgs, n) ==
    IF Len(msgs) <= n THEN msgs ELSE SubSeq(msgs, Len(msgs) - n + 1, Len(msgs))

\* server-copy.js: push, then keep only the last 50
addMessage_copy(msgs, e) ==
    LET pushed == Append(msgs, e)
    IN  IF Len(pushed) > MaxHistory THEN SliceLast(pushed, MaxHistory) ELSE pushed

\* server-fixed.js: push only
addMessage_fixed(msgs, e) == Append(msgs, e)

\* part_001: push only
addMessage_part001(msgs, e) == Append(msgs, e)

addMessage(v, msgs, e) ==
    CASE v = "copy" -> addMessage_copy(msgs, e)
      [] v = "fixed" -> addMessage_fixed(msgs, e)
      [] v = "part001" -> addMessage_part001(msgs, e)

\* server-copy.js remember(key, value): the test is on the SECOND argument
remember_copy(ctx, key, value) ==
    IF IsObject(value)
    THEN Spread(ctx, value.m)
    ELSE SetProp(ctx, PropKey(key), value)

\* server-fixed.js remember(keyOrData, value)
remember_fixed(ctx, keyOrData, value) ==
    IF IsObject(keyOrData) /\ value = JsUndefined
    THEN Spread(ctx, keyOrData.m)
    ELSE SetProp(ctx, PropKey(keyOrData), value)

\* part_001 remember(key, value): this.context[key] = value (set twice for 'email')
remember_part001(ctx, key, value) ==
    LET once == SetProp(ctx, PropKey(key), value)
    IN  IF key = JsStr("email") THEN SetProp(once, "email", value) ELSE once

remember(v, ctx, key, value) ==
    CASE v = "copy" -> remember_copy(ctx, key, value)
      [] v = "fixed" -> remember_fixed(ctx, key, value)
      [] v = "part001" -> remember_part001(ctx, key, value)

\* recall(key): return this.context[key]
recall(ctx, key) == GetProp(ctx, key)

\* getContext(): server-copy.js returns this.context itself (live is TRUE: a
\* write through the result is a write to the memory); the other copies
\* return { ...this.context }, a shallow copy.
getContext_copy(ctx) == [live |-> TRUE, props |-> ctx]

getContext_fixed(ctx) == [live |-> FALSE, props |-> ctx]

getContext_part001(ctx) == [live |-> FALSE, props |-> ctx]

getContext(v, ctx) ==
    CASE v = "copy" -> getContext_copy(ctx)
      [] v = "fixed" -> getContext_fixed(ctx)
      [] v = "part001" -> getContext_part001(ctx)

(***************************************************************************)
(* Text.  A message text is a sequence of characters; a string literal of  *)
(* the source is named by a TLA+ string and Chars gives its characters.    *)
(***************************************************************************)
Chars(w) ==
    CASE w = "track" -> <<"t", "r", "a", "c", "k">>
      [] w = "status" -> <<"s", "t", "a", "t", "u", "s">>
      [] w = "where" -> <<"w", "h", "e", "r", "e">>
      [] w = "delivery" -> <<"d", "e", "l", "i", "v", "e", "r", "y">>
      [] w = "order" -> <<"o", "r", "d", "e", "r">>
      [] w = "shipping" -> <<"s", "h", "i", "p", "p", "i", "n", "g">>
      [] w = "deal" -> <<"d", "e", "a", "l">>
      [] w = "product" -> <<"p", "r", "o", "d", "u", "c", "t">>
      [] w = "browse" -> <<"b", "r", "o", "w", "s", "e">>
      [] w = "show" -> <<"s", "h", "o", "w">>
      [] w = "what" -> <<"w", "h", "a", "t">>
      [] w = "sell" -> <<"s", "e", "l", "l">>
      [] w = "have" -> <<"h", "a", "v", "e">>
      [] w = "catalog" -> <<"c", "a", "t", "a", "l", "o", "g">>
      [] w = "collection" -> <<"c", "o", "l", "l", "e", "c", "t", "i", "o", "n">>
      [] w = "add" -> <<"a", "d", "d">>
      [] w = "cart" -> <<"c", "a", "r", "t">>
      [] w = "add to cart" -> <<"a", "d", "d", " ", "t", "o", " ", "c", "a", "r", "t">>
      [] w = "add this" -> <<"a", "d", "d", " ", "t", "h", "i", "s">>
      [] w = "want to buy" -> <<"w", "a", "n", "t", " ", "t", "o", " ", "b", "u", "y">>
      [] w = "interested" -> <<"i", "n", "t", "e", "r", "e", "s", "t", "e", "d">>
      [] w = "interested in" -> <<"i", "n", "t", "e", "r", "e", "s", "t", "e", "d", " ", "i", "n">>
      [] w = "buy" -> <<"b", "u", "y">>
      [] w = "purchase" -> <<"p", "u", "r", "c", "h", "a", "s", "e">>
      [] w = "get me" -> <<"g", "e", "t", " ", "m", "e">>
      [] w = "i want" -> <<"i", " ", "w", "a", "n", "t">>
      [] w = "buy now" -> <<"b", "u", "y", " ", "n", "o", "w">>
      [] w = "checkout" -> <<"c", "h", "e", "c", "k", "o", "u", "t">>
      [] w = "payment" -> <<"p", "a", "y", "m", "e", "n", "t">>
      [] w = "price" -> <<"p", "r", "i", "c", "e">>
      [] w = "cost" -> <<"c", "o", "s", "t">>
      [] w = "how much" -> <<"h", "o", "w", " ", "m", "u", "c", "h">>
      [] w = "complete purchase" -> <<"c", "o", "m", "p", "l", "e", "t", "e", " ", "p", "u", "r", "c", "h", "a", "s", "e">>
      [] w = "pay now" -> <<"p", "a", "y", " ", "n", "o", "w">>
      [] w = "return" -> <<"r", "e", "t", "u", "r", "n">>
      [] w = "refund" -> <<"r", "e", "f", "u", "n", "d">>
      [] w = "money back" -> <<"m", "o", "n", "e", "y", " ", "b", "a", "c", "k">>
      [] w = "cancel" -> <<"c", "a", "n", "c", "e", "l">>
      [] w = "issue" -> <<"i", "s", "s", "u", "e">>
      [] w = "wrong" -> <<"w", "r", "o", "n", "g">>
      [] w = "damaged" -> <<"d", "a", "m", "a", "g", "e", "d">>
      [] w = "not good" -> <<"n", "o", "t", " ", "g", "o", "o", "d">>
      [] w = "tell" -> <<"t", "e", "l", "l">>
      [] w = "about" -> <<"a", "b", "o", "u", "t">>
      [] w = "info" -> <<"i", "n", "f", "o">>
      [] w = "details" -> <<"d", "e", "t", "a", "i", "l", "s">>
      [] w = "describe" -> <<"d", "e", "s", "c", "r", "i", "b", "e">>
      [] w = "specifications" -> <<"s", "p", "e", "c", "i", "f", "i", "c", "a", "t", "i", "o", "n", "s">>
      [] w = "spec" -> <<"s", "p", "e", "c">>
      [] w = "hi" -> <<"h", "i">>
      [] w = "hey" -> <<"h", "e", "y">>
      [] w = "hello" -> <<"h", "e", "l", "l", "o">>
      [] w = "yo" -> <<"y", "o">>
      [] w = "sup" -> <<"s", "u", "p">>
      [] w = "hola" -> <<"h", "o", "l", "a">>
      [] w = "greetings" -> <<"g", "r", "e", "e", "t", "i", "n", "g", "s">>
      [] w = "good" -> <<"g", "o", "o", "d">>
      [] w = "morning" -> <<"m", "o", "r", "n", "i", "n", "g">>
      [] w = "afternoon" -> <<"a", "f", "t", "e", "r", "n", "o", "o", "n">>
      [] w = "evening" -> <<"e", "v", "e", "n", "i", "n", "g">>
      [] w = "remember" -> <<"r", "e", "m", "e", "m", "b", "e", "r">>
      [] w = "me" -> <<"m", "e">>
      [] w = "its" -> <<"i", "t", "s">>
      [] w = "im" -> <<"i", "m">>
      [] w = "back" -> <<"b", "a", "c", "k">>
      [] w = "Hello" -> <<"H", "e", "l", "l", "o">>
      [] w = "hire" -> <<"h", "i", "r", "e">>
      [] w = "this" -> <<"t", "h", "i", "s">>
      [] w = "my" -> <<"m", "y">>
      [] w = "deals" -> <<"d", "e", "a", "l", "s">>
      [] w = "xyz" -> <<"x", "y", "z">>
      [] w = "a@b.co" -> <<"a", "@", "b", ".", "c", "o">>
      [] w = "jane.doe@x.com" -> <<"j", "a", "n", "e", ".", "d", "o", "e", "@", "x", ".", "c", "o", "m">>
      [] w = "12345678901" -> <<"1", "2", "3", "4", "5", "6", "7", "8", "9", "0", "1">>
      [] w = "to" -> <<"t", "o">>
      [] w = "2x" -> <<"2", "x">>

UpperAlpha ==
    << "A", "B", "C", "D", "E", "F", "G", "H", "I", "J", "K", "L", "M",
       "N", "O", "P", "Q", "R", "S", "T", "U", "V", "W", "X", "Y", "Z" >>

LowerAlpha ==
    << "a", "b", "c", "d", "e", "f", "g", "h", "i", "j", "k", "l", "m",
       "n", "o", "p", "q", "r", "s", "t", "u", "v", "w", "x", "y", "z" >>

Digits == {"0", "1", "2", "3", "4", "5", "6", "7", "8", "9"}

Range(f) == {f[i] : i \in DOMAIN f}

\* \w
IsWordChar(c) == c \in Range(UpperAlpha) \cup Range(LowerAlpha) \cup Digits \cup {"_"}

\* \s
IsSpace(c) == c = " "

ToLowerChar(c) ==
    IF c \in Range(UpperAlpha)
    THEN LowerAlpha[CHOOSE i \in DOMAIN UpperAlpha : UpperAlpha[i] = c]
    ELSE c

\* String.prototype.toLowerCase
toLowerCase(text) == [i \in 1..Len(text) |-> ToLowerChar(text[i])]

\* String.prototype.trim
trim(text) ==
    LET solid == {i \in 1..Len(text) : ~IsSpace(text[i])}
    IN  IF solid = {} THEN <<>>
        ELSE SubSeq(text, CHOOSE i \in solid : \A j \in solid : i <= j,
                          CHOOSE i \in solid : \A j \in solid : i >= j)

\* the words of a message joined by single spaces
RECURSIVE JoinWords(_)
JoinWords(words) ==
    IF words = <<>> THEN <<>>
    ELSE IF Len(words) = 1 THEN Chars(words[1])
    ELSE Chars(words[1]) \o <<" ">> \o JoinWords(Tail(words))

(***************************************************************************)
(* Regular expressions of the source.  A pattern is a set of alternatives; *)
(* an alternative is a sequence of literals with, between two literals,    *)
(* either ".*" (sep "any") or "\s+" (sep "ws").  An anchored pattern is    *)
(* /^(...)\b/: it must match at the start and end at a word boundary.      *)
(***************************************************************************)
Alt(parts, sep) == [parts |-> parts, sep |-> sep]

Lit(s) == Alt(<<s>>, "any")

LitAt(text, i, lit) ==
    /\ i >= 1
    /\ i + Len(lit) - 1 <= Len(text)
    /\ \A k \in 1..Len(lit) : text[i + k - 1] = lit[k]

\* where the next literal may start, after a literal that ended before `after`
NextStarts(text, after, sep) ==
    IF sep = "any"
    THEN after..(Len(text) + 1)
    ELSE {q \in (after + 1)..(Len(text) + 1) : \A j \in after..(q - 1) : IsSpace(text[j])}

\* the positions just after a match of the literals k.. of alt, literal k at pos
RECURSIVE AltEnds(_, _, _, _)
AltEnds(text, pos, alt, k) ==
    IF ~LitAt(text, pos, Chars(alt.parts[k])) THEN {}
    ELSE LET after == pos + Len(Chars(alt.parts[k]))
         IN  IF k = Len(alt.parts) THEN {after}
             ELSE UNION {AltEnds(text, q, alt, k + 1) : q \in NextStarts(text, after, alt.sep)}

\* \b at the position between text[p - 1] and text[p]
WordBoundary(text, p) ==
    (p - 1 >= 1 /\ IsWordChar(text[p - 1])) # (p <= Len(text) /\ IsWordChar(text[p]))

\* RegExp.prototype.test
test(pattern, text) ==
    IF pattern.anchored
    THEN \E a \in pattern.alts : \E p \in AltEnds(text, 1, a, 1) : WordBoundary(text, p)
    ELSE \E a \in pattern.alts : \E i \in 1..Len(text) : AltEnds(text, i, a, 1) # {}

Lits(names) == {Lit(n) : n \in names}

(***************************************************************************)
(* detectIntent                                                            *)
(***************************************************************************)
GreetingPattern ==
    [anchored |-> TRUE,
     alts |-> Lits({"hi", "hey", "hello", "yo", "sup", "hola", "greetings"})
              \cup { Alt(<<"good", "morning">>, "ws"), Alt(<<"good", "afternoon">>, "ws"),
                     Alt(<<"good", "evening">>, "ws"), Alt(<<"remember", "me">>, "ws"),
                     Alt(<<"its", "me">>, "ws"), Alt(<<"im", "back">>, "ws") }]

TrackOrderPattern ==
    [anchored |-> FALSE,
     alts |-> Lits({"track", "status", "where", "delivery", "order", "shipping"})]

BrowseDealsPattern ==
    [anchored |-> FALSE,
     alts |-> Lits({"deal", "product", "browse", "show", "catalog", "collection"})
              \cup {Alt(<<"what", "sell">>, "any"), Alt(<<"what", "have">>, "any")}]

AddCartPattern_copy ==
    [anchored |-> FALSE,
     alts |-> Lits({"add to cart", "add this", "want to buy", "interested", "interested in"})
              \cup {Alt(<<"add", "cart">>, "any")}]

AddCartPattern_fixed ==
    [anchored |-> FALSE,
     alts |-> Lits({"add to cart", "add this", "add", "buy", "purchase", "want to buy",
                    "interested", "get me", "i want", "cart"})
              \cup {Alt(<<"add", "cart">>, "any")}]

AddCartPattern_part001 ==
    [anchored |-> FALSE,
     alts |-> Lits({"add to cart", "add this", "want to buy", "interested"})
              \cup {Alt(<<"add", "cart">>, "any")}]

BuyNowPattern_copy ==
    [anchored |-> FALSE,
     alts |-> Lits({"buy now", "checkout", "payment", "purchase", "price", "cost", "how much"})]

BuyNowPattern_fixed ==
    [anchored |-> FALSE,
     alts |-> Lits({"buy now", "checkout", "payment", "complete purchase", "pay now"})]

ReturnOrderPattern ==
    [anchored |-> FALSE,
     alts |-> Lits({"return", "refund", "money back", "cancel", "issue", "wrong",
                    "damaged", "not good"})]

ProductInfoPattern ==
    [anchored |-> FALSE,
     alts |-> Lits({"tell", "about", "info", "details", "describe", "specifications", "spec"})]

IntentDef(intent, pattern, confidence) ==
    [intent |-> intent, patterns |-> pattern, confidence |-> confidence]

\* the intents object literal, in declaration order; confidence in percent
intents_copy ==
    << IntentDef("greeting", GreetingPattern, 95),
       IntentDef("track_order", TrackOrderPattern, 95),
       IntentDef("browse_deals", BrowseDealsPattern, 90),
       IntentDef("add_cart", AddCartPattern_copy, 90),
       IntentDef("buy_now", BuyNowPattern_copy, 85),
       IntentDef("return_order", ReturnOrderPattern, 90),
       IntentDef("product_info", ProductInfoPattern, 80) >>

intents_fixed ==
    << IntentDef("track_order", TrackOrderPattern, 95),
       IntentDef("browse_deals", BrowseDealsPattern, 90),
       IntentDef("add_cart", AddCartPattern_fixed, 90),
       IntentDef("buy_now", BuyNowPattern_fixed, 85),
       IntentDef("return_order", ReturnOrderPattern, 90),
       IntentDef("product_info", ProductInfoPattern, 80) >>

intents_part001 ==
    << IntentDef("track_order", TrackOrderPattern, 95),
       IntentDef("browse_deals", BrowseDealsPattern, 90),
       IntentDef("add_cart", AddCartPattern_part001, 90),
       IntentDef("buy_now", BuyNowPattern_copy, 85),
       IntentDef("return_order", ReturnOrderPattern, 90),
       IntentDef("product_info", ProductInfoPattern, 80) >>

intents(v) ==
    CASE v = "copy" -> intents_copy
      [] v = "fixed" -> intents_fixed
      [] v = "part001" -> intents_part001

GeneralQuery == [intent |-> "general_query", confidence |-> 50]

\* for (const [intent, { patterns, confidence }] of Object.entries(intents))
\*     if (patterns.test(msg)) return { intent, confidence };
RECURSIVE FirstMatch(_, _, _)
FirstMatch(defs, msg, i) ==
    IF i > Len(defs) THEN GeneralQuery
    ELSE IF test(defs[i].patterns, msg)
         THEN [intent |-> defs[i].intent, confidence |-> defs[i].confidence]
         ELSE FirstMatch(defs, msg, i + 1)

\* server-copy.js: msg = userMessage.toLowerCase()
detectIntent_copy(userMessage) == FirstMatch(intents_copy, toLowerCase(userMessage), 1)

\* server-fixed.js: msg = userMessage.toLowerCase().trim()
detectIntent_fixed(userMessage) ==
    FirstMatch(intents_fixed, trim(toLowerCase(userMessage)), 1)

\* part_001: msg = userMessage.toLowerCase().trim()
detectIntent_part001(userMessage) ==
    FirstMatch(intents_part001, trim(toLowerCase(userMessage)), 1)

detectIntent(v, userMessage) ==
    CASE v = "copy" -> detectIntent_copy(userMessage)
      [] v = "fixed" -> detectIntent_fixed(userMessage)
      [] v = "part001" -> detectIntent_part001(userMessage)

(***************************************************************************)
(* Email extraction: userMessage.match(/[\w\.-]+@[\w\.-]+\.\w+/) in        *)
(* server-copy.js and server-fixed.js, /[\w\.-]+@[\w\.-]+/ in part_001.    *)
(***************************************************************************)
Max(S) == CHOOSE x \in S : \A y \in S : x >= y

Min(S) == CHOOSE x \in S : \A y \in S : x <= y

\* [\w\.-]
EmailChar(c) == IsWordChar(c) \/ c \in {".", "-"}

\* the last index of the longest run of characters from i that satisfy Ok
RunEnd(text, i, Ok(_)) ==
    LET good == {e \in i..Len(text) : \A q \in i..e : Ok(text[q])}
    IN  IF good = {} THEN i - 1 ELSE Max(good)

\* the index where a match that starts at i ends, 0 if none starts there;
\* the quantifiers are greedy
EmailMatchAt(text, i, tld) ==
    LET j == RunEnd(text, i, EmailChar) + 1
        d == RunEnd(text, j + 1, EmailChar)
        dots == {p \in (j + 2)..(d - 1) : text[p] = "." /\ IsWordChar(text[p + 1])}
    IN  IF j = i \/ j > Len(text) \/ text[j] # "@" THEN 0
        ELSE IF tld
             THEN IF dots = {} THEN 0 ELSE RunEnd(text, Max(dots) + 1, IsWordChar)
             ELSE IF d < j + 1 THEN 0 ELSE d

\* String.prototype.match: the leftmost match, <<>> for null
match(text, tld) ==
    LET starts == {i \in 1..Len(text) : EmailMatchAt(text, i, tld) # 0}
    IN  IF starts = {} THEN <<>>
        ELSE SubSeq(text, Min(starts), EmailMatchAt(text, Min(starts), tld))

emailMatch_copy(userMessage) == match(userMessage, TRUE)

emailMatch_fixed(userMessage) == match(userMessage, TRUE)

emailMatch_part001(userMessage) == match(userMessage, FALSE)

emailMatch(v, userMessage) ==
    CASE v = "copy" -> emailMatch_copy(userMessage)
      [] v = "fixed" -> emailMatch_fixed(userMessage)
      [] v = "part001" -> emailMatch_part001(userMessage)

\* the addresses that occur in message texts
Emails == {"a@b.co", "jane.doe@x.com"}

\* the string with the given characters
StringOf(chars) == CHOOSE w \in Emails : Chars(w) = chars

\* no classification made yet
NoResult == [intent |-> "", confidence |-> 0]

\* SpecIntent's variables while another specification runs
IntentIdle == message = <<>> /\ classified = NoResult

\* buildSalesIQResponse not called
NotBuilt == [outcome |-> "pending", value |-> JsUndefined]

BuildIdle == actionResult = JsUndefined /\ response = NotBuilt

\* no add-to-cart call
NoCartCall ==
    [n |-> 0, pc |-> "idle", route |-> "", user |-> "", email |-> "", variantId |-> 0,
     quantity |-> 0, known |-> 0, target |-> 0, before |-> <<>>, items |-> <<>>,
     created |-> 0, updated |-> 0, openAtCreate |-> FALSE, reply |-> ""]

CartIdle == draftOrders = <<>> /\ cartCtx = <<>> /\ cartCall = NoCartCall

\* track_order has not answered
NotTracked == [label |-> "", suggestions |-> <<>>]

TrackIdle == ordersData = <<>> /\ tracked = NotTracked

\* no conversation record was saved or loaded
NoConvCall ==
    [n |-> 0, op |-> "", businessId |-> <<>>, userId |-> <<>>,
     data |-> [businessId |-> <<>>, userId |-> <<>>]]

FileIdle == backend = "" /\ conversations = <<>> /\ convCall = NoConvCall

(***************************************************************************)
(* OAuth state tokens.  A token is the number of the auth/start request    *)
(* that generated it: Math.random() tokens are taken never to repeat.      *)
(***************************************************************************)
\* Date.now() - stateData.timestamp > 600000
StateTtl == 600000

NoStates == [q \in {} |-> q]

Remove(f, key) == [q \in DOMAIN f \ {key} |-> f[q]]

\* a state check that leaves an accepted state in the map
ValidateState_keeps(states, state, t) ==
    IF state \notin DOMAIN states
    THEN [ok |-> FALSE, states |-> states]
    ELSE IF t - states[state].timestamp > StateTtl
         THEN [ok |-> FALSE, states |-> Remove(states, state)]
         ELSE [ok |-> TRUE, states |-> states]

\* the state check of auth/callback: whether the callback goes on, and the map after it
ValidateState(states, state, t) ==
    IF state \notin DOMAIN states
    THEN [ok |-> FALSE, states |-> states]
    ELSE IF t - states[state].timestamp > StateTtl
         THEN [ok |-> FALSE, states |-> Remove(states, state)]
         ELSE [ok |-> TRUE, states |-> Remove(states, state)]

\* SpecOAuth's variables while another specification runs
OAuthIdle ==
    /\ env = "both"
    /\ now = 0
    /\ oauthStates = NoStates
    /\ issuedAt = <<>>
    /\ lastStart = 0
    /\ callbacks = <<>>
    /\ businessDatabase = {}
    /\ shopToBusinessMap = NoStates

(***************************************************************************)
(* Spec: the webhook route app.post("/api/zobot/:businessId").  A call runs *)
(* from one await of I/O to the next in one step; calls in flight          *)
(* interleave at those awaits.  An await of a function that does no I/O    *)
(* (detectIntent, getBusinessData on a hit) gives no other call a turn.    *)
(***************************************************************************)
MaxRequests == 2

\* req.params.businessId: a connected store and one nobody connected
KnownBusiness == "biz_1"

UnknownBusiness == "biz_0"

TextOf(words) == [k |-> "str", words |-> words]

\* a JSON number where the message text belongs
NumberText == [k |-> "num", words |-> <<>>]

Visitor(email, id) == [email |-> email, id |-> id]

Body(shape, text, visitor) == [shape |-> shape, text |-> text, visitor |-> visitor]

VisitorById == Visitor(JsUndefined, JsStr("v1"))

VisitorByEmail == Visitor(JsStr("v@x.co"), JsUndefined)

\* the calls the model makes: businessId and request body
Inputs ==
    { [biz |-> KnownBusiness, body |-> Body("text", TextOf(<<"track", "a@b.co">>), VisitorById)],
      [biz |-> KnownBusiness, body |-> Body("text", TextOf(<<"add", "this", "a@b.co">>), VisitorById)],
      [biz |-> KnownBusiness, body |-> Body("text", TextOf(<<"track">>), VisitorById)],
      [biz |-> KnownBusiness, body |-> Body("text", TextOf(<<"track", "jane.doe@x.com">>), VisitorById)],
      [biz |-> KnownBusiness, body |-> Body("text", TextOf(<<"deals">>), VisitorById)],
      [biz |-> KnownBusiness, body |-> Body("text", TextOf(<<"hi">>), VisitorById)],
      [biz |-> KnownBusiness, body |-> Body("text", TextOf(<<>>), VisitorById)],
      [biz |-> KnownBusiness, body |-> Body("text", NumberText, VisitorById)],
      [biz |-> KnownBusiness, body |-> Body("text", TextOf(<<"track">>), VisitorByEmail)],
      [biz |-> KnownBusiness, body |-> Body("session.message", TextOf(<<"deals">>), VisitorById)],
      [biz |-> UnknownBusiness, body |-> Body("text", TextOf(<<"hi">>), VisitorById)] }

\* the payload shapes each copy reads the message text from
shapes_copy == {"message.text", "text", "session.message", "data.message", "payload.message"}

shapes_fixed == {"message.text", "text"}

shapes_part001 == {"message.text", "text", "session.message", "data.message", "payload.message"}

shapes(v) ==
    CASE v = "copy" -> shapes_copy
      [] v = "fixed" -> shapes_fixed
      [] v = "part001" -> shapes_part001

NoText == [k |-> "null", words |-> <<>>]

\* messageText after the payload parsing
messageTextOf(v, body) == IF body.shape \in shapes(v) THEN body.text ELSE NoText

\* !messageText || messageText.trim() === '' : "blank", "text", or "throws" when
\* messageText is not a string and has no trim method
textCheck(messageText) ==
    CASE messageText.k = "null" -> "blank"
      [] messageText.k = "num" -> "throws"
      [] messageText.k = "str" ->
            IF trim(JoinWords(messageText.words)) = <<>> THEN "blank" ELSE "text"

\* visitor?.email || visitor?.id (each visitor of the model has one of them)
userIdOf(visitor) == IF Truthy(visitor.email) THEN visitor.email.s ELSE visitor.id.s

\* `${businessId}:${userId}` in server-copy.js, `${businessId}_${userId}` in the others
memoryKey(businessId, userId) == <<businessId, userId>>

NoData == [present |-> FALSE, messages |-> <<>>, context |-> NoProps]

\* JSON.stringify of an object: a property whose value is undefined is left out
stringify(props) == [key \in {q \in DOMAIN props : props[q] # JsUndefined} |-> props[key]]

\* the file persistence.saveConversationMemory writes, as JSON.parse reads it back
Record(messages, context) ==
    [present |-> TRUE, messages |-> messages, context |-> stringify(context)]

\* an action result; data is the own properties of result.data
ActionResult(text, needsInfo, rememberFlag, hasData, data) ==
    [message |-> text, needsInfo |-> needsInfo, remember |-> rememberFlag,
     hasData |-> hasData, data |-> data, fieldNeeded |-> "", inputType |-> "",
     followUp |-> ""]

NoAction == ActionResult("", FALSE, FALSE, FALSE, NoProps)

Reply(text) == ActionResult(text, FALSE, FALSE, FALSE, NoProps)

NeedsInfo(text) ==
    [ActionResult(text, TRUE, FALSE, FALSE, NoProps) EXCEPT !.fieldNeeded = "email",
                                                            !.inputType = "email"]

Remember(text, data) == ActionResult(text, FALSE, TRUE, TRUE, data)

\* a webhook call: its inputs, its local variables, where it stands, its response
NewRequest(id, input, doneBefore) ==
    [id |-> id, biz |-> input.biz, body |-> input.body, doneBefore |-> doneBefore,
     key |-> <<>>, mem |-> 0, reused |-> FALSE, pc |-> "begin", snap |-> NoData,
     held |-> NoData, readFailed |-> FALSE,
     intent |-> "", cx |-> NoProps, known |-> JsUndefined, email |-> JsNull,
     extracted |-> JsNull, apiCalls |-> 0,
     stage |-> "", result |-> NoAction, saving |-> NoData,
     ctxBefore |-> NoProps, ctxAfter |-> NoProps, status |-> 0, envelope |-> "",
     replies |-> <<>>, suggestions |-> <<>>, caught |-> ""]

\* the message texts of the calls, and what the pure functions of the webhook
\* make of each of them (computed once per text)
MessageTexts == {input.body.text.words : input \in Inputs}

intentOf ==
    [v \in Variants |-> [words \in MessageTexts |-> detectIntent(v, JoinWords(words))]]

emailIn ==
    [v \in Variants |-> [words \in MessageTexts |-> emailMatch(v, JoinWords(words))]]

(***************************************************************************)
(* The synchronous stretches of a webhook call.  Each works on w: the      *)
(* call's record r, the context and messages of its ConversationMemory     *)
(* object, and detach, set when a saveToFile is started and not awaited.   *)
(***************************************************************************)
\* res.json(response) / res.status(500).json(...)
Respond(w, status, envelope) ==
    [w EXCEPT !.r.pc = "done", !.r.status = status, !.r.envelope = envelope,
              !.r.ctxAfter = w.ctx, !.r.replies = << <<w.r.result.message>> >>]

\* await memory.saveToFile(): the record to write is built at the call
CallSave(w, pcNext) ==
    [w EXCEPT !.r.pc = pcNext, !.r.saving = Record(w.msgs, w.ctx)]

\* buildSalesIQResponse: response.action
envelopeOf(result) == IF result.needsInfo THEN "context" ELSE "reply"

\* context.previousActions.push({ intent, timestamp })
PushAction(ctx, intent, ts) ==
    LET pa == GetProp(ctx, "previousActions")
        items == IF Truthy(pa) THEN pa.m ELSE NoProps
        entry == JsObj(("intent" :> JsStr(intent)) @@ ("timestamp" :> JsNum(ToString(ts))))
    IN  SetProp(ctx, "previousActions",
                JsArr((ToString(Cardinality(DOMAIN items)) :> entry) @@ items))

\* for (const [key, val] of Object.entries(actionResult.data)) memory.remember(key, val)
RECURSIVE rememberEach(_, _, _)
rememberEach(ctx, data, keys) ==
    IF keys = {} THEN ctx
    ELSE LET key == CHOOSE q \in keys : TRUE
         IN  rememberEach(remember_fixed(ctx, JsStr(key), data[key]), data, keys \ {key})

\* a webhook that records every turn in previousActions, persist flag or not
finish_copy_tracksAll(w) ==
    LET res == w.r.result
        botEntry == Entry("bot", <<res.message>>, w.r.intent, w.r.id)
        ctx1 == PushAction(w.ctx, w.r.intent, w.r.id)
        msgs1 == addMessage_copy(w.msgs, botEntry)
    IN  Respond([w EXCEPT !.msgs = msgs1, !.ctx = ctx1, !.detach = TRUE,
                          !.r.ctxBefore = w.ctx, !.r.saving = Record(msgs1, ctx1)],
                200, envelopeOf(res))

\* server-copy.js: bot message, remember(data), previousActions, save not awaited, reply
finish_copy(w) ==
    LET res == w.r.result
        botEntry == Entry("bot", <<res.message>>, w.r.intent, w.r.id)
        ctx1 == IF res.remember /\ res.hasData
                THEN PushAction(remember_copy(w.ctx, JsObj(res.data), JsUndefined),
                                w.r.intent, w.r.id)
                ELSE w.ctx
        msgs1 == addMessage_copy(w.msgs, botEntry)
    IN  Respond([w EXCEPT !.msgs = msgs1, !.ctx = ctx1, !.detach = TRUE,
                          !.r.ctxBefore = w.ctx, !.r.saving = Record(msgs1, ctx1)],
                200, envelopeOf(res))

\* server-fixed.js: bot message, remember each field of data, awaited save
finish_fixed(w) ==
    LET res == w.r.result
        botEntry == Entry("bot", <<res.message>>, "", w.r.id)
        ctx1 == IF res.remember /\ res.hasData
                THEN rememberEach(w.ctx, res.data, DOMAIN res.data)
                ELSE w.ctx
    IN  CallSave([w EXCEPT !.msgs = addMessage_fixed(w.msgs, botEntry), !.ctx = ctx1,
                           !.r.ctxBefore = w.ctx],
                 "finalsave")

\* part_001: bot message, remember(intent, data) and awaited save if data is kept
finish_part001(w) ==
    LET res == w.r.result
        botEntry == Entry("bot", <<res.message>>, "", w.r.id)
        w1 == [w EXCEPT !.msgs = addMessage_part001(w.msgs, botEntry), !.r.ctxBefore = w.ctx]
    IN  IF res.remember /\ res.hasData
        THEN CallSave([w1 EXCEPT !.ctx = remember_part001(w.ctx, JsStr(w.r.intent),
                                                          JsObj(res.data))],
                      "finalsave")
        ELSE Respond(w1, 200, envelopeOf(res))

\* the webhook from the return of executeAction
finish(v, w) ==
    CASE v = "copy" -> finish_copy(w)
      [] v = "fixed" -> finish_fixed(w)
      [] v = "part001" -> finish_part001(w)

(***************************************************************************)
(* executeAction                                                           *)
(***************************************************************************)
\* what the Shopify Admin API returns in the model
OrderId == JsNum("1001")

DraftOrderId == JsNum("2002")

OrderData_copy(email) ==
    ("email" :> email) @@ ("orderId" :> OrderId) @@ ("orderName" :> JsStr("#1001"))
        @@ ("orderStatus" :> JsStr("fulfilled")) @@ ("lastOrderDate" :> JsStr("2024-01-01"))

OrderData_fixed(email) == ("email" :> email) @@ ("orderId" :> OrderId)

CartData_copy(email) == ("email" :> email) @@ ("draftOrderId" :> DraftOrderId)

CartData_fixed(email, draftOrderId) ==
    ("email" :> email) @@ ("draftOrderId" :> draftOrderId)
        @@ ("lastAddedVariant" :> JsStr("12345678901")) @@ ("lastAddedProduct" :> JsStr("Product"))

\* the context executeAction reads: the live object in server-copy.js, a copy elsewhere
actionContext(v, w) == IF v = "copy" THEN w.ctx ELSE w.r.cx

\* the action result once shopifyCall has returned; outcome "none" is null or an empty list
apiResult_copy(w, outcome) ==
    CASE w.r.intent = "track_order" ->
            IF outcome = "none" THEN Remember("no_orders", ("email" :> w.r.email))
            ELSE Remember("order", OrderData_copy(w.r.email))
      [] w.r.intent = "browse_deals" ->
            IF outcome = "none" THEN Reply("no_products")
            ELSE Remember("deals", ("productCount" :> JsNum("3")))
      [] w.r.intent = "add_cart" ->
            IF outcome = "none" THEN Reply("cart_failed")
            ELSE Remember("cart", CartData_copy(w.r.email))

apiResult_fixed(w, outcome) ==
    CASE w.r.intent = "track_order" ->
            IF outcome = "none" THEN Reply("no_orders")
            ELSE Remember("order", OrderData_fixed(w.r.email))
      [] w.r.intent = "browse_deals" ->
            IF outcome = "none" THEN Reply("no_products")
            ELSE Remember("deals", ("productCount" :> JsNum("3")) @@ ("lastBrowsed" :> JsStr("now")))

apiResult_part001(w, outcome) ==
    CASE w.r.intent = "track_order" ->
            IF outcome = "none" THEN Reply("no_orders")
            ELSE Remember("order", OrderData_fixed(w.r.email))
      [] w.r.intent = "browse_deals" ->
            IF outcome = "none" THEN Reply("no_products")
            ELSE Remember("deals", ("productCount" :> JsNum("3")))
      [] w.r.intent = "add_cart" ->
            IF outcome = "none" THEN Reply("cart_failed")
            ELSE Remember("cart", CartData_copy(w.r.email))

\* \d
IsDigit(c) == c \in Digits

\* userMessage.match(/\b(\d{11,})\b/) finds a variant id
HasVariantId(text) ==
    \E i \in 1..Len(text) :
        LET e == RunEnd(text, i, IsDigit)
        IN  /\ e - i + 1 >= 11
            /\ i = 1 \/ ~IsWordChar(text[i - 1])
            /\ e = Len(text) \/ ~IsWordChar(text[e + 1])

StripWords == <<"add to cart", "add", "cart", "buy", "purchase", "i want", "get me">>

\* .replace(/add to cart|add|cart|buy|purchase|i want|get me/gi, '') from index i
RECURSIVE Strip(_, _)
Strip(text, i) ==
    IF i > Len(text) THEN <<>>
    ELSE LET hits == {k \in DOMAIN StripWords : LitAt(text, i, Chars(StripWords[k]))}
         IN  IF hits = {} THEN <<text[i]>> \o Strip(text, i + 1)
             ELSE Strip(text, i + Len(Chars(StripWords[Min(hits)])))

cleanMessage(userMessage) == trim(Strip(toLowerCase(userMessage), 1))

\* server-fixed.js add_cart after a shopifyCall.  stage names the request that
\* returned: "search" the product search; "draft" the GET of the remembered
\* draft order, or the POST of a new one when none is remembered; "create" the
\* POST after a GET that found nothing; "update" the PUT of the line items.
cartStep_fixed(w, outcome) ==
    LET known == GetProp(w.r.cx, "draftOrderId")
        created == CallSave([w EXCEPT !.ctx = remember_fixed(w.ctx, JsStr("draftOrderId"),
                                                             DraftOrderId),
                                      !.r.result =
                                          Remember("added",
                                                   CartData_fixed(w.r.email, DraftOrderId))],
                            "cartsave")
    IN  CASE w.r.stage = "search" ->
                IF outcome = "none"
                THEN finish_fixed([w EXCEPT !.r.result = Reply("which_product")])
                ELSE [w EXCEPT !.r.stage = "draft"]
          [] w.r.stage = "draft" /\ Truthy(known) ->
                IF outcome = "none" THEN [w EXCEPT !.r.stage = "create"]
                ELSE [w EXCEPT !.r.stage = "update"]
          [] w.r.stage = "update" ->
                IF outcome = "none"
                THEN finish_fixed([w EXCEPT !.r.result = Reply("update_failed")])
                ELSE finish_fixed([w EXCEPT !.r.result =
                                      Remember("added", CartData_fixed(w.r.email, known))])
          [] OTHER ->
                IF outcome = "none"
                THEN finish_fixed([w EXCEPT !.r.result = Reply("cart_failed")])
                ELSE created

\* executeAction and the webhook after it, from the return of a shopifyCall
afterApi(v, w, outcome) ==
    CASE v = "copy" -> finish_copy([w EXCEPT !.r.result = apiResult_copy(w, outcome)])
      [] v = "fixed" ->
            IF w.r.intent = "add_cart" THEN cartStep_fixed(w, outcome)
            ELSE finish_fixed([w EXCEPT !.r.result = apiResult_fixed(w, outcome)])
      [] v = "part001" -> finish_part001([w EXCEPT !.r.result = apiResult_part001(w, outcome)])

\* the message text of a call, as characters
textOf(w) == JoinWords(w.r.body.text.words)

\* an executor that goes on to the API call whether or not it has an email
afterEmail_noPrompt(v, w) == [w EXCEPT !.r.pc = "api"]

\* track_order and add_cart once the local variable email is settled
afterEmail(v, w) ==
    IF ~Truthy(w.r.email)
    THEN finish(v, [w EXCEPT !.r.result = NeedsInfo("email_required")])
    ELSE IF v = "fixed" /\ w.r.intent = "add_cart"
    THEN IF HasVariantId(textOf(w)) THEN [w EXCEPT !.r.pc = "api", !.r.stage = "draft"]
         ELSE IF Len(cleanMessage(textOf(w))) > 2
              THEN [w EXCEPT !.r.pc = "api", !.r.stage = "search"]
              ELSE finish(v, [w EXCEPT !.r.result = Reply("which_product")])
    ELSE [w EXCEPT !.r.pc = "api"]

\* track_order and add_cart: the email of the context, else one found in the message
resolveEmail(v, w) ==
    LET known == GetProp(actionContext(v, w), "email")
        found == emailIn[v][w.r.body.text.words]
    IN  IF Truthy(known) \/ found = <<>>
        THEN afterEmail(v, [w EXCEPT !.r.email = known, !.r.known = known])
        ELSE LET email == JsStr(StringOf(found))
                 w1 == [w EXCEPT !.r.email = email, !.r.extracted = email,
                                 !.r.known = known]
             IN  CASE v = "copy" /\ w.r.intent = "track_order" ->
                        afterEmail(v, [w1 EXCEPT !.ctx = SetProp(w.ctx, "email", email)])
                   [] v = "fixed" ->
                        CallSave([w1 EXCEPT !.ctx = remember_fixed(w.ctx, JsStr("email"), email)],
                                 "exsave")
                   [] OTHER -> afterEmail(v, w1)

\* context.previousActions?.[context.previousActions.length - 1]
lastAction(cx) ==
    LET items == GetProp(cx, "previousActions").m
        n == Cardinality(DOMAIN items)
    IN  IF n = 0 THEN JsUndefined ELSE GetProp(items, ToString(n - 1))

\* the second part of the welcome-back message
followUp(cx) ==
    IF lastAction(cx) = JsStr("trackorder") THEN "check_order_again"
    ELSE IF lastAction(cx) = JsStr("browsedeals") THEN "more_deals"
    ELSE "how_can_i_help"

\* executeAction up to its first await of I/O, or to the end of the call
executeAction(v, w) ==
    LET cx == actionContext(v, w)
        returning == \/ Truthy(GetProp(cx, "email"))
                     \/ Truthy(GetProp(cx, "orderId"))
                     \/ GetProp(cx, "previousActions").m # NoProps
    IN  CASE w.r.intent = "greeting" /\ v = "copy" ->
                finish(v, [w EXCEPT !.r.result =
                              IF returning
                              THEN [Reply("welcome_back") EXCEPT !.followUp = followUp(cx)]
                              ELSE Reply("welcome")])
          [] w.r.intent \in {"track_order", "add_cart"} -> resolveEmail(v, w)
          [] w.r.intent = "browse_deals" -> [w EXCEPT !.r.pc = "api"]
          [] w.r.intent \in {"buy_now", "return_order"} ->
                finish(v, [w EXCEPT !.r.result =
                              IF Truthy(GetProp(cx, "email")) THEN Reply("proceed")
                              ELSE NeedsInfo("email_required")])
          [] OTHER -> finish(v, [w EXCEPT !.r.result = Reply("menu")])

\* detectIntent, the user's message into the history, getContext, executeAction
classify(v, w) ==
    LET found == intentOf[v][w.r.body.text.words]
        userEntry == Entry("user", w.r.body.text.words, found.intent, w.r.id)
    IN  executeAction(v, [w EXCEPT !.msgs = addMessage(v, w.msgs, userEntry),
                                   !.r.intent = found.intent,
                                   !.r.cx = IF getContext(v, w.ctx).live THEN NoProps
                                            ELSE getContext(v, w.ctx).props])

\* the webhook once it holds its memory object: the visitor's email is kept
\* (server-copy.js, server-fixed.js), then the message is handled
afterMemory(v, w) ==
    LET visitorEmail == w.r.body.visitor.email
    IN  IF v # "part001" /\ Truthy(visitorEmail) /\ ~Truthy(GetProp(w.ctx, "email"))
        THEN IF v = "copy"
             THEN CallSave([w EXCEPT !.ctx = remember_copy(w.ctx, JsObj(("email" :> visitorEmail)),
                                                           JsUndefined)],
                           "autosave")
             ELSE CallSave([w EXCEPT !.ctx = remember_fixed(w.ctx, JsStr("email"), visitorEmail)],
                           "autosave")
        ELSE classify(v, w)

\* the webhook after an awaited saveToFile has settled
afterSave(v, w) ==
    CASE w.r.pc = "autosave" -> classify(v, w)
      [] w.r.pc = "exsave" -> afterEmail(v, w)
      [] w.r.pc = "cartsave" -> finish(v, w)
      [] w.r.pc = "finalsave" -> Respond(w, 200, envelopeOf(w.r.result))

\* the webhook's variables while another specification runs
HookIdle ==
    /\ userSessions = NoStates
    /\ heap = <<>>
    /\ store = NoStates
    /\ pending = {}
    /\ requests = <<>>

(***************************************************************************)
(* SpecMemory: method calls on one ConversationMemory object.              *)
(***************************************************************************)
MaxAdds == 52

MaxRemembers == 2

\* the map arguments of remember(map)
Patches ==
    { ("email" :> JsStr("a@b.com")),
      ("email" :> JsStr("c@d.com")) @@ ("orderId" :> JsNum("42")) }

\* the key and value arguments of remember(key, value)
RememberKeys == {"email", "orderId", "draftOrderId"}

RememberValues ==
    { JsNull, JsNum("42"), JsStr("a@b.com"),
      JsObj(("orderId" :> JsNum("7"))), JsArr(("0" :> JsStr("x"))) }

NoCall == [op |-> "none", key |-> "", value |-> JsUndefined, before |-> NoProps]

InitMemory ==
    /\ variant \in Variants
    /\ memory = NewMemory(variant)
    /\ added = <<>>
    /\ lastCall = NoCall
    /\ nRemember = 0
    /\ IntentIdle
    /\ OAuthIdle
    /\ HookIdle
    /\ BuildIdle
    /\ CartIdle
    /\ TrackIdle
    /\ FileIdle

\* memory.addMessage(role, content): the webhook adds the user's text, then the reply
AddMessageCall ==
    /\ Len(added) < MaxAdds
    /\ LET n == Len(added) + 1
           e == Entry(IF n % 2 = 1 THEN "user" ELSE "bot", "text", "none", n)
       IN  /\ memory' = [memory EXCEPT !.messages = addMessage(variant, @, e)]
           /\ added' = Append(added, e)
    /\ lastCall' = [NoCall EXCEPT !.op = "addMessage", !.before = memory.context]
    /\ UNCHANGED <<variant, nRemember, notMemory>>

\* memory.remember(patch): one argument, a map
RememberMapCall ==
    /\ nRemember < MaxRemembers
    /\ \E patch \in Patches :
        /\ memory' = [memory EXCEPT
                        !.context = remember(variant, @, JsObj(patch), JsUndefined)]
        /\ lastCall' = [op |-> "rememberMap", key |-> "", value |-> JsObj(patch),
                        before |-> memory.context]
    /\ nRemember' = nRemember + 1
    /\ UNCHANGED <<variant, added, notMemory>>

\* memory.remember(key, value)
RememberKeyValueCall ==
    /\ nRemember < MaxRemembers
    /\ \E key \in RememberKeys, value \in RememberValues :
        /\ memory' = [memory EXCEPT
                        !.context = remember(variant, @, JsStr(key), value)]
        /\ lastCall' = [op |-> "rememberKV", key |-> key, value |-> value,
                        before |-> memory.context]
    /\ nRemember' = nRemember + 1
    /\ UNCHANGED <<variant, added, notMemory>>

NextMemory ==
    \/ AddMessageCall
    \/ RememberMapCall
    \/ RememberKeyValueCall

SpecMemory == InitMemory /\ [][NextMemory]_vars

\* C3: after remember(map), every field of the map reads back its new value
\* through getContext and recall, and no other context field is changed,
\* added or removed.
C3_RememberMapMerges ==
    lastCall.op = "rememberMap" =>
        LET patch == lastCall.value.m
            ctx == memory.context
        IN  /\ \A f \in DOMAIN patch :
                /\ recall(ctx, f) = patch[f]
                /\ GetProp(getContext(variant, ctx).props, f) = patch[f]
            /\ DOMAIN ctx = DOMAIN lastCall.before \cup DOMAIN patch
            /\ \A f \in DOMAIN lastCall.before \ DOMAIN patch :
                ctx[f] = lastCall.before[f]

\* C4: after remember(key, value), recall(key) is the value, whatever the
\* value is, and no other context field is changed, added or removed; a
\* field never set recalls as null or undefined.
C4_RememberKeyValueSetsOneField ==
    /\ lastCall.op = "rememberKV" =>
            LET ctx == memory.context
            IN  /\ recall(ctx, lastCall.key) = lastCall.value
                /\ DOMAIN ctx = DOMAIN lastCall.before \cup {lastCall.key}
                /\ \A f \in DOMAIN lastCall.before \ {lastCall.key} :
                    ctx[f] = lastCall.before[f]
    /\ recall(memory.context, "neverSet") \in {JsNull, JsUndefined}

\* C10: the history holds at most 50 entries, and they are the most
\* recently added ones in the order they were added.
C10_HistoryIsLast50 ==
    /\ Len(memory.messages) <= MaxHistory
    /\ memory.messages = SliceLast(added, MaxHistory)

(***************************************************************************)
(* SpecIntent: detectIntent applied to message texts.                      *)
(***************************************************************************)
\* SpecMemory's variables while another specification runs
MemoryIdle ==
    /\ memory = NewMemory(variant)
    /\ added = <<>>
    /\ lastCall = NoCall
    /\ nRemember = 0

MaxWords == 2

Vocabulary ==
    { "hi", "Hello", "hire", "good", "morning", "track", "return", "my", "deals",
      "add", "cart", "purchase", "refund", "info", "this", "to", "xyz" }

WordLists == UNION {[1..n -> Vocabulary] : n \in 1..MaxWords}

\* message texts: words joined by spaces, possibly after a leading space
Messages ==
    {JoinWords(ws) : ws \in WordLists} \cup {<<" ">> \o JoinWords(ws) : ws \in WordLists}

InitIntent ==
    /\ variant \in Variants
    /\ message \in Messages
    /\ classified = NoResult
    /\ MemoryIdle
    /\ OAuthIdle
    /\ HookIdle
    /\ BuildIdle
    /\ CartIdle
    /\ TrackIdle
    /\ FileIdle

\* const { intent, confidence } = await detectIntent(messageText)
Classify ==
    /\ classified = NoResult
    /\ classified' = detectIntent(variant, message)
    /\ UNCHANGED <<variant, message, notIntent>>

\* the next message text arrives
NextMessage ==
    /\ classified # NoResult
    /\ message' \in Messages
    /\ classified' = NoResult
    /\ UNCHANGED <<variant, notIntent>>

NextIntent ==
    \/ Classify
    \/ NextMessage

SpecIntent == InitIntent /\ [][NextIntent]_vars

\* the order in which the specification declares the intents
DeclaredOrder ==
    << "greeting", "track_order", "browse_deals", "add_cart", "buy_now",
       "return_order", "product_info" >>

\* the declared intents whose pattern matches the lower-cased text; greeting has
\* the one pattern the repository gives it, the others the pattern of the copy
Matching(v, text) ==
    {i \in DOMAIN DeclaredOrder :
        \/ DeclaredOrder[i] = "greeting" /\ test(GreetingPattern, toLowerCase(text))
        \/ \E d \in Range(intents(v)) :
              /\ d.intent = DeclaredOrder[i]
              /\ d.intent # "greeting"
              /\ test(d.patterns, toLowerCase(text))}

ConfidenceOf(intent) ==
    (CHOOSE d \in Range(intents_copy) : d.intent = intent).confidence

EarliestMatch(v, text) ==
    IF Matching(v, text) = {} THEN [intent |-> "general_query", confidence |-> 50]
    ELSE LET i == CHOOSE j \in Matching(v, text) : \A k \in Matching(v, text) : j <= k
         IN  [intent |-> DeclaredOrder[i], confidence |-> ConfidenceOf(DeclaredOrder[i])]

\* C6: detectIntent returns the earliest declared intent (greeting, track_order,
\* browse_deals, add_cart, buy_now, return_order, product_info) whose pattern
\* matches the lower-cased text, with its confidence; a text matching both
\* track_order and return_order yields track_order; a text matching no pattern
\* yields general_query with confidence 0.5 (50 percent).
C6_EarliestDeclaredIntent ==
    classified # NoResult =>
        /\ classified = EarliestMatch(variant, message)
        /\ ({2, 6} \subseteq Matching(variant, message) => classified.intent = "track_order")
        /\ (Matching(variant, message) = {} => classified = GeneralQuery)

\* C6 in server-copy.js alone: the earliest declared matching intent is returned
C6_EarliestDeclaredIntent_copy ==
    (variant = "copy" /\ classified # NoResult) =>
        classified = EarliestMatch(variant, message)

(***************************************************************************)
(* SpecOAuth: the routes /api/shopify/auth/start and /auth/callback.       *)
(***************************************************************************)
MaxStarts == 2

MaxCallbacks == 2

MaxNow == 600001

\* how far Date.now() moves between two steps
TickSizes == {600000, 600001}

Shops == {"a.myshopify.com"}

\* req.query.shop is missing
NoShop == ""

\* a shop for which no auth/start request is made
OtherShop == "b.myshopify.com"

\* a state parameter that auth/start never issued
Forged == 0

Callback(state, shop, present, validated, pc, status) ==
    [state |-> state, shop |-> shop, at |-> now, present |-> present,
     issuedFor |-> IF state \in DOMAIN oauthStates THEN oauthStates[state].shop ELSE NoShop,
     validated |-> validated, pc |-> pc, status |-> status]

InitOAuth ==
    /\ variant \in Variants
    /\ env \in {"none", "keyOnly", "both"}
    /\ now = 0
    /\ oauthStates = NoStates
    /\ issuedAt = <<>>
    /\ lastStart = 0
    /\ callbacks = <<>>
    /\ businessDatabase = {}
    /\ shopToBusinessMap = NoStates
    /\ MemoryIdle
    /\ IntentIdle
    /\ HookIdle
    /\ BuildIdle
    /\ CartIdle
    /\ TrackIdle
    /\ FileIdle

\* time passes
Tick ==
    /\ \E d \in TickSizes :
         /\ now + d <= MaxNow
         /\ now' = now + d
    /\ UNCHANGED <<variant, env, oauthStates, issuedAt, lastStart, callbacks,
                   businessDatabase, shopToBusinessMap, notOAuth>>

\* GET /api/shopify/auth/start
AuthStart ==
    /\ \E shop \in Shops \cup {NoShop} :
         IF shop = NoShop
         THEN /\ lastStart' = 400
              /\ UNCHANGED <<oauthStates, issuedAt>>
         ELSE IF env = "none"
         THEN /\ lastStart' = 500
              /\ UNCHANGED <<oauthStates, issuedAt>>
         ELSE /\ Len(issuedAt) < MaxStarts
              /\ oauthStates' = (Len(issuedAt) + 1 :> [shop |-> shop, timestamp |-> now])
                                    @@ oauthStates
              /\ issuedAt' = Append(issuedAt, now)
              /\ lastStart' = 200
    /\ UNCHANGED <<variant, env, now, callbacks, businessDatabase, shopToBusinessMap,
                   notOAuth>>

\* GET /api/shopify/auth/callback, up to the first await
CallbackBegin ==
    /\ Len(callbacks) < MaxCallbacks
    /\ \E state \in {Forged} \cup (1..MaxStarts), shop \in Shops \cup {OtherShop} :
         LET checked == ValidateState(oauthStates, state, now)
             present == state \in DOMAIN oauthStates
         IN  /\ oauthStates' = checked.states
             /\ callbacks' = Append(callbacks,
                    IF ~checked.ok THEN Callback(state, shop, present, FALSE, "done", 403)
                    ELSE IF env # "both"
                         THEN Callback(state, shop, present, TRUE, "done", 500)
                         ELSE Callback(state, shop, present, TRUE, "exchange", 0))
    /\ UNCHANGED <<variant, env, now, issuedAt, lastStart, businessDatabase,
                   shopToBusinessMap, notOAuth>>

\* the token exchange and the shop details fetch return; saveBusinessData begins
TokenExchange ==
    /\ \E i \in DOMAIN callbacks :
         /\ callbacks[i].pc = "exchange"
         /\ \/ /\ callbacks' = [callbacks EXCEPT ![i].pc = "persist"]
               /\ businessDatabase' = businessDatabase \cup
                      {[businessId |-> i, shopDomain |-> callbacks[i].shop,
                        status |-> "active", state |-> callbacks[i].state]}
               /\ shopToBusinessMap' =
                      IF variant = "copy"
                      THEN (callbacks[i].shop :> i) @@ shopToBusinessMap
                      ELSE shopToBusinessMap
            \/ /\ callbacks' = [callbacks EXCEPT ![i].pc = "done", ![i].status = 500]
               /\ UNCHANGED <<businessDatabase, shopToBusinessMap>>
    /\ UNCHANGED <<variant, env, now, oauthStates, issuedAt, lastStart, notOAuth>>

\* persistence.saveBusinessData returns or throws; the response is sent
PersistBusiness ==
    /\ \E i \in DOMAIN callbacks :
         /\ callbacks[i].pc = "persist"
         /\ \/ /\ callbacks' = [callbacks EXCEPT ![i].pc = "done", ![i].status = 200]
               /\ shopToBusinessMap' =
                      IF variant = "copy"
                      THEN shopToBusinessMap
                      ELSE (callbacks[i].shop :> i) @@ shopToBusinessMap
            \/ /\ callbacks' = [callbacks EXCEPT ![i].pc = "done", ![i].status = 500]
               /\ UNCHANGED shopToBusinessMap
    /\ UNCHANGED <<variant, env, now, oauthStates, issuedAt, lastStart, businessDatabase,
                   notOAuth>>

NextOAuth ==
    \/ Tick
    \/ AuthStart
    \/ CallbackBegin
    \/ TokenExchange
    \/ PersistBusiness

SpecOAuth == InitOAuth /\ [][NextOAuth]_vars

\* the callbacks that passed the state check with the state token
AcceptedWith(state) == {i \in DOMAIN callbacks : callbacks[i].state = state /\ callbacks[i].validated}

\* C7: a state token is accepted by at most one callback; a callback goes on to
\* the token exchange only if its state was in the map and was issued at most
\* 10 minutes before; the state is out of the map before the exchange begins;
\* every other callback presenting the state gets 403 and creates no tenant.
C7_StateTokenSingleUse ==
    /\ \A state \in {Forged} \cup (1..MaxStarts) : Cardinality(AcceptedWith(state)) <= 1
    /\ \A i \in DOMAIN callbacks :
         /\ callbacks[i].validated =>
              /\ callbacks[i].present
              /\ callbacks[i].state \in DOMAIN issuedAt
              /\ callbacks[i].at - issuedAt[callbacks[i].state] <= StateTtl
              /\ callbacks[i].state \notin DOMAIN oauthStates
         /\ callbacks[i].pc \in {"exchange", "persist"} => callbacks[i].validated
         /\ ~callbacks[i].validated =>
              /\ callbacks[i].status = 403
              /\ \A b \in businessDatabase : b.businessId # i
    /\ \A state \in 1..MaxStarts :
         Cardinality({b \in businessDatabase : b.state = state}) <= 1

\* C7 witness: one callback is awaiting the token exchange and a second callback
\* that presented the same state has been rejected with 403
C7_Witness ==
    \E i, j \in DOMAIN callbacks :
        /\ i # j
        /\ callbacks[i].state = callbacks[j].state
        /\ callbacks[i].pc = "exchange"
        /\ callbacks[j].present = FALSE
        /\ callbacks[j].status = 403

(***************************************************************************)
(* Spec: webhook calls.                                                    *)
(***************************************************************************)
\* the catch block of the webhook: res.json in server-copy.js, res.status(500) elsewhere
catchStatus_copy == 200

catchStatus_fixed == 500

catchStatus_part001 == 500

catchStatus(v) ==
    CASE v = "copy" -> catchStatus_copy
      [] v = "fixed" -> catchStatus_fixed
      [] v = "part001" -> catchStatus_part001

\* a session map that keeps the object it already holds for a key
SessionSet_keepsFirst(sessions, key, object) ==
    IF key \in DOMAIN sessions THEN sessions ELSE (key :> object) @@ sessions

\* a webhook that answers an unknown business like a message it cannot read
NotFoundReply_asFallback(v) ==
    [replies |-> << <<"I couldn't understand your message. Please try again!">> >>,
     suggestions |-> <<"Browse Deals", "Track Order", "Help">>]

\* the reply when getBusinessData finds no business
NotFoundReply(v) ==
    [replies |-> << <<"Sorry, bot configuration not found. Please reconnect your store.">> >>,
     suggestions |-> IF v = "copy" THEN <<"Help", "Contact Support">> ELSE <<>>]

\* the reply when no message text was found
FallbackReply(v) ==
    IF v = "copy"
    THEN [replies |-> << <<"I couldn't understand your message. Please try again!">>,
                         <<"Try saying: 'show me deals', 'track order', 'add to cart', or 'help'">> >>,
          suggestions |-> <<"Browse Deals", "Track Order", "Help">>]
    ELSE [replies |-> << <<"I couldn't understand your message. Please try again.">>,
                         <<"Try: 'show deals', 'track order', 'add to cart'">> >>,
          suggestions |-> <<"Browse Deals", "Track Order", "Help">>]

\* error.message of the TypeError of messageText.trim() on a value that is not a
\* string; the wording is the JavaScript engine's (V8, JavaScriptCore)
TrimErrorTexts ==
    {"messageText.trim is not a function",
     "messageText.trim is not a function. (In 'messageText.trim()', 'messageText.trim' is undefined)"}

\* the reply of the catch block: the first line is the template literal
\* `An error occurred: ${error.message}`
catchReply(v, text) ==
    IF v = "copy"
    THEN [replies |-> << <<"An error occurred: ", text>>,
                         <<"Please try again or contact support if the issue persists.">> >>,
          suggestions |-> <<"Try Again", "Browse Deals", "Help">>]
    ELSE [replies |-> << <<"An error occurred: ", text>>,
                         <<"Please try again or contact support.">> >>,
          suggestions |-> <<"Help", "Browse Deals">>]

\* userSessions.set(memoryKey, memory)
SessionSet(sessions, key, object) == (key :> object) @@ sessions

\* ConversationMemory.loadFromFile: the object built from what the store returned
loadFromFile(v, data) ==
    IF data.present THEN [messages |-> data.messages, context |-> data.context]
    ELSE NewMemory(v)

\* the call requests[i] with the state of its memory object
World(i) ==
    [r |-> requests[i], ctx |-> heap[requests[i].mem].context,
     msgs |-> heap[requests[i].mem].messages, detach |-> FALSE]

\* the call and its memory object after a synchronous stretch
Commit(i, w, heapBefore, requestsBefore) ==
    /\ requests' = [requestsBefore EXCEPT ![i] = w.r]
    /\ heap' = [heapBefore EXCEPT ![w.r.mem] =
                   [key |-> w.r.key, messages |-> w.msgs, context |-> w.ctx]]
    /\ pending' = IF w.detach
                  THEN pending \cup {[key |-> w.r.key, by |-> w.r.id,
                                      record |-> Record(w.msgs, w.ctx)]}
                  ELSE pending

Init ==
    /\ variant \in Variants
    /\ HookIdle
    /\ MemoryIdle
    /\ IntentIdle
    /\ OAuthIdle
    /\ BuildIdle
    /\ CartIdle
    /\ TrackIdle
    /\ FileIdle

\* a webhook call with one of the given bodies arrives and runs to its first
\* await of I/O
BeginWith(inputs, maxRequests) ==
    /\ Len(requests) < maxRequests
    /\ \E input \in inputs :
         LET id == Len(requests) + 1
             r0 == NewRequest(id, input, {j \in DOMAIN requests : requests[j].pc = "done"})
             check == textCheck(messageTextOf(variant, input.body))
             key == memoryKey(input.biz, userIdOf(input.body.visitor))
             answered(status, reply, caught) ==
                 /\ requests' = Append(requests,
                                       [r0 EXCEPT !.pc = "done", !.status = status,
                                                  !.envelope = "reply",
                                                  !.replies = reply.replies,
                                                  !.suggestions = reply.suggestions,
                                                  !.caught = caught])
                 /\ UNCHANGED <<heap, pending>>
         IN  CASE input.biz # KnownBusiness -> answered(200, NotFoundReply(variant), "")
               [] input.biz = KnownBusiness /\ check = "blank" ->
                     answered(200, FallbackReply(variant), "")
               [] input.biz = KnownBusiness /\ check = "throws" ->
                     \E text \in TrimErrorTexts :
                         answered(catchStatus(variant), catchReply(variant, text), text)
               [] OTHER ->
                     IF key \in DOMAIN userSessions
                     THEN Commit(id,
                                 afterMemory(variant,
                                     [r |-> [r0 EXCEPT !.key = key, !.mem = userSessions[key],
                                                       !.reused = TRUE],
                                      ctx |-> heap[userSessions[key]].context,
                                      msgs |-> heap[userSessions[key]].messages,
                                      detach |-> FALSE]),
                                 heap, Append(requests, r0))
                     ELSE /\ requests' = Append(requests, [r0 EXCEPT !.key = key, !.pc = "load"])
                          /\ UNCHANGED <<heap, pending>>
    /\ UNCHANGED <<variant, userSessions, store, notHook>>

Begin == BeginWith(Inputs, MaxRequests)

\* persistence.loadConversationMemory reads the store; an error reads as null
StoreRead ==
    /\ \E i \in DOMAIN requests :
         /\ requests[i].pc = "load"
         /\ LET held == IF requests[i].key \in DOMAIN store
                         THEN store[requests[i].key] ELSE NoData
            IN  \/ requests' = [requests EXCEPT ![i].pc = "loaded", ![i].snap = held,
                                                ![i].held = held]
                \/ /\ requests[i].key \in DOMAIN store
                   /\ requests' = [requests EXCEPT ![i].pc = "loaded", ![i].snap = NoData,
                                                   ![i].held = held,
                                                   ![i].readFailed = TRUE]
    /\ UNCHANGED <<variant, userSessions, heap, store, pending, notHook>>

\* loadFromFile returns: the session map gets the new object and the call goes on
LoadDone ==
    /\ \E i \in DOMAIN requests :
         /\ requests[i].pc = "loaded"
         /\ LET object == loadFromFile(variant, requests[i].snap)
                mem == Len(heap) + 1
            IN  /\ userSessions' = SessionSet(userSessions, requests[i].key, mem)
                /\ Commit(i,
                          afterMemory(variant,
                              [r |-> [requests[i] EXCEPT !.mem = mem], ctx |-> object.context,
                               msgs |-> object.messages, detach |-> FALSE]),
                          Append(heap, [key |-> requests[i].key, messages |-> object.messages,
                                        context |-> object.context]),
                          requests)
    /\ UNCHANGED <<variant, store, notHook>>

\* an awaited saveToFile settles: written, or failed and logged; the call goes on
SaveDone ==
    /\ \E i \in DOMAIN requests :
         /\ requests[i].pc \in {"autosave", "exsave", "cartsave", "finalsave"}
         /\ \/ store' = (requests[i].key :> requests[i].saving) @@ store
            \/ store' = store
         /\ Commit(i, afterSave(variant, World(i)), heap, requests)
    /\ UNCHANGED <<variant, userSessions, notHook>>

\* a shopifyCall returns and the call goes on
ApiDone ==
    /\ \E i \in DOMAIN requests, outcome \in {"ok", "none"} :
         /\ requests[i].pc = "api"
         /\ Commit(i, afterApi(variant, [World(i) EXCEPT !.r.apiCalls = @ + 1], outcome),
                   heap, requests)
    /\ UNCHANGED <<variant, userSessions, store, notHook>>

\* a saveToFile that nobody awaits settles
DetachedSave ==
    /\ \E p \in pending :
         /\ pending' = pending \ {p}
         /\ \/ store' = (p.key :> p.record) @@ store
            \/ store' = store
    /\ UNCHANGED <<variant, userSessions, heap, requests, notHook>>

Next ==
    \/ Begin
    \/ StoreRead
    \/ LoadDone
    \/ SaveDone
    \/ ApiDone
    \/ DetachedSave

Spec == Init /\ [][Next]_vars

(***************************************************************************)
(* SpecRace: the webhook calls of one visitor that reach the session map.  *)
(***************************************************************************)
MaxRaceRequests == 2

RaceInputs ==
    { [biz |-> KnownBusiness, body |-> Body("text", TextOf(<<"track", "a@b.co">>), VisitorById)],
      [biz |-> KnownBusiness, body |-> Body("text", TextOf(<<"track">>), VisitorById)],
      [biz |-> KnownBusiness, body |-> Body("text", TextOf(<<"hi">>), VisitorById)] }

BeginRace == BeginWith(RaceInputs, MaxRaceRequests)

NextRace ==
    \/ BeginRace
    \/ StoreRead
    \/ LoadDone
    \/ SaveDone
    \/ ApiDone
    \/ DetachedSave

SpecRace == Init /\ [][NextRace]_vars

(***************************************************************************)
(* Properties of the webhook.                                              *)
(***************************************************************************)
EmailIntents == {"track_order", "add_cart"}

\* the entries of context.previousActions, by index
ActionsOf(ctx) ==
    IF Truthy(GetProp(ctx, "previousActions")) THEN GetProp(ctx, "previousActions").m
    ELSE NoProps

\* the call took part in the conversation: it got a memory object
Handled(r) == r.mem # 0

\* the entry the call put into the history for the user's message is in msgs
UserEntryIn(r, msgs) ==
    \E n \in DOMAIN msgs : msgs[n].role = "user" /\ msgs[n].timestamp = r.id

\* C1: when a finished track_order or add_cart turn found no email in the context
\* and extracted one from its message, context.email is the extracted address at
\* the end of the turn, and no later finished track_order or add_cart turn of the
\* same key whose message has no email returns the needs-info prompt.
C1_ExtractedEmailKept ==
    \A i \in DOMAIN requests :
        (requests[i].pc = "done" /\ requests[i].extracted # JsNull) =>
            /\ GetProp(requests[i].ctxAfter, "email") = requests[i].extracted
            /\ \A j \in DOMAIN requests :
                 (/\ i \in requests[j].doneBefore
                  /\ requests[j].key = requests[i].key
                  /\ requests[j].pc = "done"
                  /\ requests[j].intent \in EmailIntents
                  /\ emailIn[variant][requests[j].body.text.words] = <<>>)
                     => ~requests[j].result.needsInfo

\* C2: after a finished turn whose action result has the persist flag and data,
\* every field of the data is in the context with the data's value and
\* previousActions has exactly one more entry than before, the last one, naming
\* the turn's intent; after a turn without the flag previousActions is unchanged.
C2_PersistedDataInContext ==
    \A i \in DOMAIN requests :
        (requests[i].pc = "done" /\ Handled(requests[i])) =>
            LET r == requests[i]
                before == ActionsOf(r.ctxBefore)
                after == ActionsOf(r.ctxAfter)
                last == ToString(Cardinality(DOMAIN before))
            IN  IF r.result.remember /\ r.result.hasData
                THEN /\ \A field \in DOMAIN r.result.data :
                          GetProp(r.ctxAfter, field) = r.result.data[field]
                     /\ DOMAIN after = DOMAIN before \cup {last}
                     /\ \A n \in DOMAIN before : after[n] = before[n]
                     /\ GetProp(after[last].m, "intent") = JsStr(r.intent)
                ELSE after = before

\* the email the session map's memory of a key holds
SessionEmail(sessions, objects, key) == GetProp(objects[sessions[key]].context, "email")

\* C5: once the memory the session map holds for a key has a non-null
\* context.email, no step leaves that key with a memory whose context.email is
\* null or absent.
C5_EmailNeverCleared ==
    [][\A key \in DOMAIN userSessions :
          Truthy(SessionEmail(userSessions, heap, key)) =>
              /\ key \in DOMAIN userSessions'
              /\ Truthy(SessionEmail(userSessions', heap', key))]_vars

\* C8: every answered webhook call has HTTP status 200 and a reply or context
\* envelope.
C8_AlwaysHttp200 ==
    \A i \in DOMAIN requests :
        requests[i].pc = "done" =>
            /\ requests[i].status = 200
            /\ requests[i].envelope \in {"reply", "context"}

\* the calls that loaded a memory object of their own for the key
Loaders(key) ==
    {i \in DOMAIN requests : requests[i].key = key /\ Handled(requests[i])
                             /\ ~requests[i].reused}

\* no two calls of the key were in progress at the same time
Serial(key) ==
    \A i, j \in DOMAIN requests :
        (i < j /\ requests[i].key = key /\ requests[j].key = key) =>
            i \in requests[j].doneBefore

\* C9: calls that find their key missing from the session map each load a memory
\* object of their own; the map holds the object of the call that inserted last
\* (objects are numbered in the order of their insertion); and when no two calls
\* of a key overlapped, all of them worked on the object the map holds and the
\* history entry of each finished one is in it.
C9_LastWriteWins ==
    /\ \A i, j \in DOMAIN requests :
         (i # j /\ Handled(requests[i]) /\ Handled(requests[j])
          /\ ~requests[i].reused /\ ~requests[j].reused)
             => requests[i].mem # requests[j].mem
    /\ \A key \in DOMAIN userSessions :
         /\ Loaders(key) # {}
         /\ userSessions[key] = Max({requests[i].mem : i \in Loaders(key)})
         /\ Serial(key) =>
              \A i \in DOMAIN requests :
                  (requests[i].key = key /\ Handled(requests[i])) =>
                      /\ requests[i].mem = userSessions[key]
                      /\ requests[i].pc = "done" =>
                           UserEntryIn(requests[i], heap[userSessions[key]].messages)

\* C9 witness: two finished calls of one key overlapped and loaded different
\* objects; the map holds the object of the one that inserted last, and neither
\* the history entry nor the email written by the other is in it
C9_Witness ==
    \E i, j \in DOMAIN requests :
        /\ requests[i].pc = "done" /\ requests[j].pc = "done"
        /\ requests[i].key = requests[j].key
        /\ ~requests[i].reused /\ ~requests[j].reused
        /\ Handled(requests[i]) /\ Handled(requests[j])
        /\ requests[i].mem < requests[j].mem
        /\ userSessions[requests[j].key] = requests[j].mem
        /\ Truthy(GetProp(requests[i].ctxAfter, "email"))
        /\ ~Truthy(SessionEmail(userSessions, heap, requests[j].key))
        /\ ~UserEntryIn(requests[i], heap[requests[j].mem].messages)

\* the email token the call's message carries, <<>> when it has none
TokenOf(r) == emailIn[variant][r.body.text.words]

\* the Shopify calls the call has made so far
ApiCallsMade(r) == r.apiCalls + IF r.pc = "api" THEN 1 ELSE 0

\* C11: a finished track_order or add_cart turn has a needs-info result, asking
\* for the field email with input type email, exactly when context.email was
\* absent and its message has no email token, and then it made no Shopify call;
\* when context.email was present the executor used it, whatever the message has.
C11_NeedsInfoOnlyWithoutEmail ==
    \A i \in DOMAIN requests :
        (requests[i].pc = "done" /\ requests[i].intent \in EmailIntents) =>
            LET r == requests[i]
            IN  /\ r.result.needsInfo <=> (~Truthy(r.known) /\ TokenOf(r) = <<>>)
                /\ r.result.needsInfo =>
                     /\ r.result.fieldNeeded = "email"
                     /\ r.result.inputType = "email"
                     /\ ApiCallsMade(r) = 0
                /\ Truthy(r.known) => r.email = r.known

\* C11 witness: a finished turn whose message carries another address than the
\* context used the context's address for its Shopify call
C11_Witness ==
    \E j \in DOMAIN requests :
        /\ requests[j].pc = "done"
        /\ requests[j].intent \in EmailIntents
        /\ Truthy(requests[j].known)
        /\ TokenOf(requests[j]) # <<>>
        /\ StringOf(TokenOf(requests[j])) # requests[j].known.s
        /\ requests[j].email = requests[j].known
        /\ requests[j].apiCalls > 0

\* the entry the call put into the history for the bot's reply is in msgs
BotEntryIn(r, msgs) ==
    \E n \in DOMAIN msgs : msgs[n].role = "bot" /\ msgs[n].timestamp = r.id

\* C12: a finished turn that reached intent classification has issued a write of
\* the conversation to the store, and the record of the last write it issued
\* holds the turn's bot reply, whatever the action result was.
C12_TurnEndsWithSave ==
    \A i \in DOMAIN requests :
        (requests[i].pc = "done" /\ requests[i].intent # "") =>
            /\ requests[i].saving.present
            /\ BotEntryIn(requests[i], requests[i].saving.messages)

(***************************************************************************)
(* SpecStore: webhook calls after a restart of the server, the             *)
(* conversations table holding the record of an earlier turn.              *)
(***************************************************************************)
MaxStoreRequests == 2

StoreInputs ==
    { [biz |-> KnownBusiness, body |-> Body("text", TextOf(<<"track">>), VisitorById)],
      [biz |-> KnownBusiness, body |-> Body("text", TextOf(<<"hi">>), VisitorById)] }

\* the record a turn "track a@b.co" that found an order left in the table
StoredTurn(v) ==
    LET email == JsStr("a@b.co")
        userEntry == Entry("user", <<"track", "a@b.co">>, "track_order", 0)
    IN  CASE v = "copy" ->
                Record(<<userEntry, Entry("bot", <<"order">>, "track_order", 0)>>,
                       PushAction(SetProp(NewContext_copy, "email", email), "track_order", 0))
          [] v = "fixed" ->
                Record(<<userEntry, Entry("bot", <<"order">>, "", 0)>>,
                       rememberEach(remember_fixed(NewContext_fixed, JsStr("email"), email),
                                    OrderData_fixed(email), DOMAIN OrderData_fixed(email)))
          [] v = "part001" ->
                Record(<<userEntry, Entry("bot", <<"order">>, "", 0)>>,
                       remember_part001(NewContext_part001, JsStr("track_order"),
                                        JsObj(OrderData_fixed(email))))

InitStore ==
    /\ variant \in Variants
    /\ userSessions = NoStates
    /\ heap = <<>>
    /\ store = (memoryKey(KnownBusiness, userIdOf(VisitorById)) :> StoredTurn(variant))
    /\ pending = {}
    /\ requests = <<>>
    /\ MemoryIdle
    /\ IntentIdle
    /\ OAuthIdle
    /\ BuildIdle
    /\ CartIdle
    /\ TrackIdle
    /\ FileIdle

BeginStore == BeginWith(StoreInputs, MaxStoreRequests)

NextStore ==
    \/ BeginStore
    \/ StoreRead
    \/ LoadDone
    \/ SaveDone
    \/ ApiDone
    \/ DetachedSave

SpecStore == InitStore /\ [][NextStore]_vars

\* C13: a store read or write that fails is not raised to the caller (the call
\* answers 200 and its memory object holds the turn's entries), and the turn
\* gives the reply it would have given had the store succeeded: two calls with
\* the same request that found the same record in the store, whatever failed in
\* one of them, answer with the same envelope and, when neither called Shopify,
\* the same message.
C13_StoreFailureChangesNothing ==
    /\ \A i \in DOMAIN requests :
         (requests[i].pc = "done" /\ requests[i].intent # "") =>
             /\ requests[i].status = 200
             /\ UserEntryIn(requests[i], heap[requests[i].mem].messages)
             /\ BotEntryIn(requests[i], heap[requests[i].mem].messages)
    /\ \A i, j \in DOMAIN requests :
         (/\ requests[i].pc = "done" /\ requests[j].pc = "done"
          /\ requests[i].intent # "" /\ requests[j].intent # ""
          /\ ~requests[i].reused /\ ~requests[j].reused
          /\ requests[i].body = requests[j].body
          /\ requests[i].held = requests[j].held) =>
             /\ requests[i].envelope = requests[j].envelope
             /\ (requests[i].apiCalls = 0 /\ requests[j].apiCalls = 0) =>
                  requests[i].result.message = requests[j].result.message

\* C14: the reply of a call that caught an exception does not contain the text
\* of the error, and two calls with the same request that caught errors
\* differing only in their message give the same reply.
C14_ReplyIndependentOfErrorText ==
    /\ \A i \in DOMAIN requests :
         (requests[i].pc = "done" /\ requests[i].caught # "") =>
             \A n \in DOMAIN requests[i].replies :
                 \A part \in DOMAIN requests[i].replies[n] :
                     requests[i].replies[n][part] # requests[i].caught
    /\ \A i, j \in DOMAIN requests :
         (/\ requests[i].pc = "done" /\ requests[j].pc = "done"
          /\ requests[i].caught # "" /\ requests[j].caught # ""
          /\ requests[i].body = requests[j].body) =>
             requests[i].replies = requests[j].replies

\* C15: a finished turn classified as greeting leaves the context of its memory
\* as it was when the action was executed, every field included, and its user
\* and bot entries are in the history, one after the other.
C15_GreetingKeepsContext ==
    \A i \in DOMAIN requests :
        (requests[i].pc = "done" /\ requests[i].intent = "greeting") =>
            /\ requests[i].ctxAfter = requests[i].ctxBefore
            /\ ~requests[i].result.remember
            /\ \E n \in DOMAIN heap[requests[i].mem].messages :
                 LET msgs == heap[requests[i].mem].messages
                 IN  /\ n + 1 \in DOMAIN msgs
                     /\ msgs[n].role = "user" /\ msgs[n].timestamp = requests[i].id
                     /\ msgs[n + 1].role = "bot" /\ msgs[n + 1].timestamp = requests[i].id

\* C15 witness: a greeting turn of a returning user (the context has an email and
\* a previousActions entry) has finished and the context is as before
C15_Witness ==
    \E i \in DOMAIN requests :
        /\ requests[i].pc = "done"
        /\ requests[i].intent = "greeting"
        /\ requests[i].result.message = "welcome_back"
        /\ Truthy(GetProp(requests[i].ctxBefore, "email"))
        /\ ActionsOf(requests[i].ctxBefore) # NoProps
        /\ requests[i].ctxAfter = requests[i].ctxBefore

\* C16: a call whose business id resolves to no business is answered in one step
\* with the please-reconnect reply, and that step loads or creates no memory,
\* classifies no intent, calls no API and leaves the session map, the memory
\* objects, the store and the writes in flight as they were.
C16_UnknownBusinessOnlyReplies ==
    [][\A i \in DOMAIN requests' :
          (i \notin DOMAIN requests /\ requests'[i].biz # KnownBusiness) =>
              /\ requests'[i].pc = "done"
              /\ requests'[i].status = 200
              /\ requests'[i].envelope = "reply"
              /\ requests'[i].replies =
                     << <<"Sorry, bot configuration not found. Please reconnect your store.">> >>
              /\ requests'[i].mem = 0 /\ ~requests'[i].reused
              /\ requests'[i].snap = NoData /\ requests'[i].held = NoData
              /\ requests'[i].intent = ""
              /\ requests'[i].apiCalls = 0
              /\ requests'[i].saving = NoData
              /\ UNCHANGED <<userSessions, heap, store, pending>>]_vars

\* C16 witness: a call for an unknown business was answered while a session of
\* the known business exists
C16_Witness ==
    /\ \E i \in DOMAIN requests :
         /\ requests[i].biz # KnownBusiness
         /\ requests[i].pc = "done"
         /\ requests[i].replies =
                << <<"Sorry, bot configuration not found. Please reconnect your store.">> >>
    /\ DOMAIN userSessions # {}

\* the request body carries non-blank message text in one of the payload shapes
CarriesText(body) ==
    /\ body.shape \in shapes_copy \cup shapes_fixed \cup shapes_part001
    /\ body.text.k = "str"
    /\ trim(JoinWords(body.text.words)) # <<>>

\* the call was answered with the couldn't-understand reply
FallbackReturned(r) ==
    /\ r.status = 200
    /\ r.envelope = "reply"
    /\ r.replies = FallbackReply(variant).replies
    /\ r.suggestions = <<"Browse Deals", "Track Order", "Help">>

\* C17: a finished call of a known business whose body carries no non-blank
\* message text was answered with the couldn't-understand reply and the
\* suggestions Browse Deals, Track Order, Help, without a memory object, an
\* intent or an API call; a finished call whose body carries non-blank text in
\* a payload shape was not answered with that reply.
C17_FallbackExactlyWithoutText ==
    \A i \in DOMAIN requests :
        (requests[i].pc = "done" /\ requests[i].biz = KnownBusiness) =>
            /\ ~CarriesText(requests[i].body) =>
                   /\ FallbackReturned(requests[i])
                   /\ requests[i].mem = 0
                   /\ requests[i].intent = ""
                   /\ requests[i].apiCalls = 0
            /\ CarriesText(requests[i].body) => ~FallbackReturned(requests[i])

(***************************************************************************)
(* SpecBuild: buildSalesIQResponse, applied to one action result.          *)
(***************************************************************************)
\* what executeAction returns when it asks for a field
NeedsInfoResults ==
    { JsObj(("needsInfo" :> JsTrue) @@ ("fieldNeeded" :> JsStr("email"))
              @@ ("question" :> JsStr("What is your email?")) @@ inputType)
        : inputType \in {NoProps, "inputType" :> JsStr("email"),
                         "inputType" :> JsStr("text")} }

Chips == {NoProps, "suggestions" :> JsArr(<<>>), "suggestions" :> JsArr(<<JsStr("Help")>>)}

Buttons ==
    {NoProps, "buttons" :> JsArr(<<>>),
     "buttons" :> JsArr(<<JsObj("label" :> JsStr("Buy"))>>)}

Cards ==
    {NoProps, "cards" :> JsArr(<<>>),
     "cards" :> JsArr(<<JsObj("title" :> JsStr("Deal"))>>)}

\* what executeAction returns when it answers
ReplyResults ==
    { JsObj(("message" :> JsStr("Order found")) @@ s @@ b @@ c)
        : s \in Chips, b \in Buttons, c \in Cards }

ActionResults == {JsNull, JsUndefined} \cup NeedsInfoResults \cup ReplyResults

Returned(props) == [outcome |-> "returned", value |-> JsObj(props)]

\* a TypeError: a property of null or undefined was read
Threw == [outcome |-> "threw", value |-> JsUndefined]

\* value.length > 0 of an array
NonEmpty(value) == value.k = "list" /\ Len(value.m) > 0

\* the context envelope of the needsInfo branch
contextEnvelope(a) ==
    LET inputType == GetProp(a.m, "inputType")
        validate == IF inputType = JsStr("email")
                    THEN "validate" :> JsObj("format" :> JsStr("email"))
                    ELSE NoProps
        input == IF Truthy(inputType)
                 THEN "input" :> JsObj(("type" :> inputType) @@ validate)
                 ELSE NoProps
        question == ("name" :> GetProp(a.m, "fieldNeeded"))
                        @@ ("replies" :> JsArr(<<GetProp(a.m, "question")>>)) @@ input
    IN  ("action" :> JsStr("context")) @@ ("context_id" :> GetProp(a.m, "fieldNeeded"))
            @@ ("questions" :> JsArr(<<JsObj(question)>>))

\* response[key] = actionResult[key] when the condition holds
PassThrough(a, key, cond) == IF cond THEN key :> GetProp(a.m, key) ELSE NoProps

\* server-copy.js: no check of actionResult; suggestions and buttons when not empty
buildSalesIQResponse_copy(a) ==
    IF a.k \in {"null", "undefined"} THEN Threw
    ELSE IF Truthy(GetProp(a.m, "needsInfo")) THEN Returned(contextEnvelope(a))
    ELSE Returned(("action" :> JsStr("reply"))
                      @@ ("replies" :> JsArr(<<GetProp(a.m, "message")>>))
                      @@ PassThrough(a, "suggestions", NonEmpty(GetProp(a.m, "suggestions")))
                      @@ PassThrough(a, "buttons", NonEmpty(GetProp(a.m, "buttons"))))

\* the reply when actionResult is null or undefined
ErrorReply ==
    ("action" :> JsStr("reply"))
        @@ ("replies" :> JsArr(<<JsStr("An error occurred. Please try again.")>>))

\* actionResult.message || "No response"
messageOr(a) ==
    IF Truthy(GetProp(a.m, "message")) THEN GetProp(a.m, "message") ELSE JsStr("No response")

\* server-fixed.js: cards when not empty, suggestions and buttons when present
buildSalesIQResponse_fixed(a) ==
    IF ~Truthy(a) THEN Returned(ErrorReply)
    ELSE IF Truthy(GetProp(a.m, "needsInfo")) THEN Returned(contextEnvelope(a))
    ELSE Returned(("action" :> JsStr("reply"))
                      @@ ("replies" :> JsArr(<<messageOr(a)>>))
                      @@ PassThrough(a, "cards", NonEmpty(GetProp(a.m, "cards")))
                      @@ PassThrough(a, "suggestions", Truthy(GetProp(a.m, "suggestions")))
                      @@ PassThrough(a, "buttons", Truthy(GetProp(a.m, "buttons"))))

\* part_001: as server-fixed.js, without the cards
buildSalesIQResponse_part001(a) ==
    IF ~Truthy(a) THEN Returned(ErrorReply)
    ELSE IF Truthy(GetProp(a.m, "needsInfo")) THEN Returned(contextEnvelope(a))
    ELSE Returned(("action" :> JsStr("reply"))
                      @@ ("replies" :> JsArr(<<messageOr(a)>>))
                      @@ PassThrough(a, "suggestions", Truthy(GetProp(a.m, "suggestions")))
                      @@ PassThrough(a, "buttons", Truthy(GetProp(a.m, "buttons"))))

buildSalesIQResponse(v, a) ==
    CASE v = "copy" -> buildSalesIQResponse_copy(a)
      [] v = "fixed" -> buildSalesIQResponse_fixed(a)
      [] v = "part001" -> buildSalesIQResponse_part001(a)

InitBuild ==
    /\ variant \in Variants
    /\ actionResult \in ActionResults
    /\ response = NotBuilt
    /\ MemoryIdle
    /\ IntentIdle
    /\ OAuthIdle
    /\ HookIdle
    /\ CartIdle
    /\ TrackIdle
    /\ FileIdle

\* const response = buildSalesIQResponse(actionResult)
Build ==
    /\ response = NotBuilt
    /\ response' = buildSalesIQResponse(variant, actionResult)
    /\ UNCHANGED <<variant, actionResult, notBuild>>

\* the next action result
NextResult ==
    /\ response # NotBuilt
    /\ actionResult' \in ActionResults
    /\ response' = NotBuilt
    /\ UNCHANGED <<variant, notBuild>>

NextBuild ==
    \/ Build
    \/ NextResult

SpecBuild == InitBuild /\ [][NextBuild]_vars

\* the items of a list property of an object; none when the property is absent
ItemsOf(obj, key) ==
    IF GetProp(obj.m, key).k = "list" THEN GetProp(obj.m, key).m ELSE <<>>

\* C18: buildSalesIQResponse returns for every action result: for null and
\* undefined a reply envelope with an error sentence; for a result with
\* needsInfo a context envelope that names the field, asks the question and,
\* for input type email, carries validate format email; for any other result a
\* reply envelope with the message and the suggestions, buttons and cards of
\* the result.
C18_BuildIsTotalAndFaithful ==
    response # NotBuilt =>
        /\ response.outcome = "returned"
        /\ LET a == actionResult
               out == response.value
           IN  CASE a.k \in {"null", "undefined"} ->
                      /\ GetProp(out.m, "action") = JsStr("reply")
                      /\ ItemsOf(out, "replies") # <<>>
                 [] a.k = "map" /\ Truthy(GetProp(a.m, "needsInfo")) ->
                      /\ GetProp(out.m, "action") = JsStr("context")
                      /\ GetProp(out.m, "context_id") = GetProp(a.m, "fieldNeeded")
                      /\ Len(ItemsOf(out, "questions")) = 1
                      /\ LET q == ItemsOf(out, "questions")[1]
                         IN  /\ GetProp(q.m, "name") = GetProp(a.m, "fieldNeeded")
                             /\ ItemsOf(q, "replies") = <<GetProp(a.m, "question")>>
                             /\ GetProp(a.m, "inputType") = JsStr("email") =>
                                    /\ GetProp(GetProp(q.m, "input").m, "type") = JsStr("email")
                                    /\ GetProp(GetProp(q.m, "input").m, "validate")
                                           = JsObj("format" :> JsStr("email"))
                 [] OTHER ->
                      /\ GetProp(out.m, "action") = JsStr("reply")
                      /\ ItemsOf(out, "replies") = <<GetProp(a.m, "message")>>
                      /\ \A key \in {"suggestions", "buttons", "cards"} :
                             ItemsOf(out, key) = ItemsOf(a, key)

\* the tenants of a shop domain whose status is active
ActiveTenants(shop) ==
    {b \in businessDatabase : b.shopDomain = shop /\ b.status = "active"}

\* C19: no two records of the registry have the same business id, and no shop
\* domain has more than one record with status active, also after the shop
\* has completed the OAuth connection more than once.
C19_OneActiveTenantPerShop ==
    /\ \A b1 \in businessDatabase, b2 \in businessDatabase :
           b1.businessId = b2.businessId => b1 = b2
    /\ \A shop \in Shops : Cardinality(ActiveTenants(shop)) <= 1

(***************************************************************************)
(* SpecContext: a caller writes to the object that getContext() returned.  *)
(***************************************************************************)
\* const context = memory.getContext(); context[key] = value
AssignThroughContext ==
    /\ lastCall.op # "assign"
    /\ \E key \in RememberKeys, value \in RememberValues :
        LET got == getContext(variant, memory.context)
        IN  /\ memory' = IF got.live
                         THEN [memory EXCEPT !.context = SetProp(got.props, key, value)]
                         ELSE memory
            /\ lastCall' = [op |-> "assign", key |-> key, value |-> value,
                            before |-> memory.context]
    /\ UNCHANGED <<variant, added, nRemember, notMemory>>

NextContext ==
    \/ RememberKeyValueCall
    \/ AssignThroughContext

SpecContext == InitMemory /\ [][NextContext]_vars

\* C20: after a caller has assigned to a field of the object that getContext()
\* returned, getContext() and recall() of the memory give what they gave before
\* the assignment.
C20_GetContextIsSnapshot ==
    lastCall.op = "assign" =>
        /\ getContext(variant, memory.context).props = lastCall.before
        /\ recall(memory.context, lastCall.key) = recall(lastCall.before, lastCall.key)

\* the call was a track_order turn whose orders request returned an order
OrderFound(r) == r.pc = "done" /\ r.intent = "track_order" /\ r.result.message = "order"

\* C21: after a track_order turn whose orders request returned an order, the
\* context holds the email the turn used and the id, name, fulfillment status
\* and creation date of the first order returned.
C21_OrderFieldsInContext ==
    \A i \in DOMAIN requests :
        OrderFound(requests[i]) =>
            LET ctx == requests[i].ctxAfter
            IN  /\ GetProp(ctx, "email") = requests[i].email
                /\ GetProp(ctx, "orderId") = OrderId
                /\ GetProp(ctx, "orderName") = JsStr("#1001")
                /\ GetProp(ctx, "orderStatus") = JsStr("fulfilled")
                /\ GetProp(ctx, "lastOrderDate") = JsStr("2024-01-01")

\* C22: a call whose visitor data carries an email writes a record holding that
\* email to the store before its intent is executed, and an action of the turn
\* that needs an email finds one in the context and does not ask for it.
C22_VisitorEmailAutoSaved ==
    \A i \in DOMAIN requests :
        Truthy(requests[i].body.visitor.email) =>
            /\ requests[i].pc = "autosave" =>
                   GetProp(requests[i].saving.context, "email") = requests[i].body.visitor.email
            /\ (requests[i].pc = "done" /\ requests[i].intent \in EmailIntents) =>
                   /\ Truthy(requests[i].known)
                   /\ ~requests[i].result.needsInfo

\* the intent of the last entry of previousActions, "" when there is none
LastRecordedIntent(ctx) ==
    IF lastAction(ctx).k = "map" THEN GetProp(lastAction(ctx).m, "intent").s ELSE ""

\* C23: the welcome-back reply of a greeting turn ends with the offer to check
\* the order status again when the last entry of previousActions is a
\* track_order, with the offer of more deals when it is a browse_deals, and
\* with the general question otherwise.
C23_FollowUpByLastIntent ==
    \A i \in DOMAIN requests :
        ( /\ requests[i].pc = "done"
          /\ requests[i].intent = "greeting"
          /\ requests[i].result.message = "welcome_back" ) =>
            requests[i].result.followUp =
                CASE LastRecordedIntent(requests[i].ctxBefore) = "track_order" ->
                         "check_order_again"
                  [] LastRecordedIntent(requests[i].ctxBefore) = "browse_deals" ->
                         "more_deals"
                  [] OTHER -> "how_can_i_help"

\* C25: a webhook call makes at most two requests to the Shopify Admin API.
\* (A request that failed is not made again: each return of a request moves the
\* call to a different request or to its reply.)
C25_AtMostTwoApiRequests ==
    \A i \in DOMAIN requests : requests[i].apiCalls <= 2

(***************************************************************************)
(* SpecCart: add-to-cart calls against the draft orders of one shop: the   *)
(* add_cart action of the webhook (route "webhook") and the endpoint       *)
(* /salesiq-add-to-cart of server.js and part_001 (route "endpoint").      *)
(***************************************************************************)
MaxCartCalls == 3

MaxDrafts == 2

CartUsers == {"v1", "v2"}

CartEmails == {"a@b.co", "c@d.co"}

VariantIds == {11, 12}

Quantities == {1, 2}

NewCartCtx == [u \in CartUsers |-> [email |-> "", draftOrderId |-> 0]]

\* currentItems after the find and the quantity update or the push
MergeItem(items, variantId, quantity) ==
    LET hits == {k \in DOMAIN items : items[k].variant_id = variantId}
    IN  IF hits # {}
        THEN [items EXCEPT ![Min(hits)].quantity = @ + quantity]
        ELSE Append(items, [variant_id |-> variantId, quantity |-> quantity])

OpenDrafts == {id \in DOMAIN draftOrders : draftOrders[id].status = "open"}

InitCart ==
    /\ variant \in Variants
    /\ draftOrders = <<>>
    /\ cartCtx = NewCartCtx
    /\ cartCall = NoCartCall
    /\ MemoryIdle
    /\ IntentIdle
    /\ OAuthIdle
    /\ HookIdle
    /\ BuildIdle
    /\ TrackIdle
    /\ FileIdle

\* executeAction add_cart up to its first draft-order request: the email of the
\* context, else the one of the message (kept at once in server-fixed.js); the
\* remembered draft order is looked up in server-fixed.js only
WebhookAddCart ==
    /\ cartCall.pc \in {"idle", "done"}
    /\ cartCall.n < MaxCartCalls
    /\ \E user \in CartUsers, said \in CartEmails, variantId \in VariantIds,
          quantity \in Quantities :
         LET email == IF cartCtx[user].email # "" THEN cartCtx[user].email ELSE said
             known == IF variant = "fixed" THEN cartCtx[user].draftOrderId ELSE 0
         IN  /\ cartCall' = [NoCartCall EXCEPT
                                !.n = cartCall.n + 1, !.route = "webhook", !.user = user,
                                !.email = email, !.variantId = variantId,
                                !.quantity = quantity, !.known = known,
                                !.pc = IF known # 0 THEN "get" ELSE "post",
                                !.items = IF variant = "fixed"
                                          THEN <<[variant_id |-> variantId,
                                                  quantity |-> quantity]>>
                                          ELSE <<>>]
             /\ cartCtx' = IF variant = "fixed"
                           THEN [cartCtx EXCEPT ![user].email = email]
                           ELSE cartCtx
    /\ UNCHANGED <<variant, draftOrders, notCart>>

\* POST /salesiq-add-to-cart up to the request for the open draft orders
EndpointAddCart ==
    /\ cartCall.pc \in {"idle", "done"}
    /\ cartCall.n < MaxCartCalls
    /\ \E email \in CartEmails, variantId \in VariantIds, quantity \in Quantities :
         cartCall' = [NoCartCall EXCEPT
                         !.n = cartCall.n + 1, !.route = "endpoint", !.email = email,
                         !.variantId = variantId, !.quantity = quantity, !.pc = "list",
                         !.items = <<[variant_id |-> variantId, quantity |-> quantity]>>]
    /\ UNCHANGED <<variant, draftOrders, cartCtx, notCart>>

\* GET /draft_orders/{id}.json returns the draft order, or the request fails
GetDraft ==
    /\ cartCall.pc = "get"
    /\ \/ /\ cartCall.known \in DOMAIN draftOrders
          /\ cartCall' = [cartCall EXCEPT
                             !.pc = "put", !.target = cartCall.known,
                             !.before = draftOrders[cartCall.known].line_items,
                             !.items = MergeItem(draftOrders[cartCall.known].line_items,
                                                 cartCall.variantId, cartCall.quantity)]
       \/ cartCall' = [cartCall EXCEPT !.pc = "post"]
    /\ UNCHANGED <<variant, draftOrders, cartCtx, notCart>>

\* GET /draft_orders.json?status=open returns the open draft orders; the
\* endpoint takes the first of them, whichever the shop lists first
ListDrafts ==
    /\ cartCall.pc = "list"
    /\ \/ /\ OpenDrafts = {}
          /\ cartCall' = [cartCall EXCEPT !.pc = "post"]
       \/ \E id \in OpenDrafts :
            cartCall' = [cartCall EXCEPT
                            !.pc = "put", !.target = id,
                            !.before = draftOrders[id].line_items,
                            !.items = MergeItem(draftOrders[id].line_items,
                                                cartCall.variantId, cartCall.quantity)]
       \/ cartCall' = [cartCall EXCEPT !.pc = "done", !.reply = "error"]
    /\ UNCHANGED <<variant, draftOrders, cartCtx, notCart>>

\* PUT /draft_orders/{id}.json replaces the line items, or the request fails
PutDraft ==
    /\ cartCall.pc = "put"
    /\ \/ /\ draftOrders' = [draftOrders EXCEPT
                                ![cartCall.target].line_items = cartCall.items,
                                ![cartCall.target].touchedBy = @ \cup {cartCall.email}]
          /\ cartCall' = [cartCall EXCEPT !.pc = "done", !.updated = cartCall.target,
                                          !.reply = "added"]
       \/ /\ cartCall' = [cartCall EXCEPT !.pc = "done", !.reply = "update_failed"]
          /\ UNCHANGED draftOrders
    /\ UNCHANGED <<variant, cartCtx, notCart>>

\* POST /draft_orders.json creates a draft order, or the request fails;
\* server-fixed.js remembers the new id at once
PostDraft ==
    /\ cartCall.pc = "post"
    /\ \/ /\ Len(draftOrders) < MaxDrafts
          /\ draftOrders' = Append(draftOrders,
                                   [email |-> cartCall.email, status |-> "open",
                                    line_items |-> cartCall.items, touchedBy |-> {}])
          /\ cartCall' = [cartCall EXCEPT
                             !.pc = "done", !.created = Len(draftOrders) + 1,
                             !.openAtCreate = cartCall.known \in OpenDrafts,
                             !.reply = "added"]
          /\ cartCtx' = IF cartCall.route = "webhook" /\ variant = "fixed"
                        THEN [cartCtx EXCEPT ![cartCall.user].draftOrderId =
                                                 Len(draftOrders) + 1]
                        ELSE cartCtx
       \/ /\ cartCall' = [cartCall EXCEPT !.pc = "done", !.reply = "cart_failed"]
          /\ UNCHANGED <<draftOrders, cartCtx>>
    /\ UNCHANGED <<variant, notCart>>

\* the customer checks out: the draft order is completed
CompleteDraft ==
    /\ \E id \in OpenDrafts : draftOrders' = [draftOrders EXCEPT ![id].status = "completed"]
    /\ UNCHANGED <<variant, cartCtx, cartCall, notCart>>

NextCart ==
    \/ WebhookAddCart
    \/ EndpointAddCart
    \/ GetDraft
    \/ ListDrafts
    \/ PutDraft
    \/ PostDraft
    \/ CompleteDraft

SpecCart == InitCart /\ [][NextCart]_vars

\* C24: a finished add_cart of the webhook that updated a cart updated the
\* remembered one, and sent its line items with the quantity of the variant
\* raised by the requested quantity if the variant was in the cart, with one
\* line item appended if not, the other line items unchanged; and one that
\* created a cart had no cart id remembered or the remembered cart was not open.
C24_MergeIntoRememberedCart ==
    (cartCall.pc = "done" /\ cartCall.route = "webhook") =>
        /\ cartCall.updated # 0 =>
               /\ cartCall.updated = cartCall.known
               /\ LET before == cartCall.before
                      sent == cartCall.items
                      hits == {k \in DOMAIN before :
                                  before[k].variant_id = cartCall.variantId}
                  IN  IF hits # {}
                      THEN /\ Len(sent) = Len(before)
                           /\ \E h \in hits :
                                /\ sent[h].quantity = before[h].quantity + cartCall.quantity
                                /\ sent[h].variant_id = before[h].variant_id
                                /\ \A k \in DOMAIN before \ {h} : sent[k] = before[k]
                      ELSE /\ Len(sent) = Len(before) + 1
                           /\ sent[Len(sent)] = [variant_id |-> cartCall.variantId,
                                                 quantity |-> cartCall.quantity]
                           /\ \A k \in DOMAIN before : sent[k] = before[k]
        /\ cartCall.created # 0 => (cartCall.known = 0 \/ ~cartCall.openAtCreate)

\* C30: a draft order's line items are replaced only by add-to-cart calls made
\* for the email the draft order was created for.
C30_CartOfSameCustomer ==
    \A id \in DOMAIN draftOrders : draftOrders[id].touchedBy \subseteq {draftOrders[id].email}

(***************************************************************************)
(* SpecTrack: the reply of track_order for the orders the API returned.    *)
(***************************************************************************)
HoursPerDay == 24

\* order.fulfillment_status of the first order
FulfillmentStates == {JsNull, JsStr("fulfilled"), JsStr("partial"), JsStr("restocked")}

\* Date.now() - orderDate.getTime(), in hours
ElapsedHours == {0, 23, 24, 719, 720, 743, 744, 1440}

OrderCounts == {1, 2}

\* Math.floor((Date.now() - orderDate.getTime()) / (1000 * 60 * 60 * 24))
daysSince(elapsed) == elapsed \div HoursPerDay

\* statusText of server-copy.js
statusText(fulfillment) ==
    LET text == IF Truthy(fulfillment) THEN fulfillment.s ELSE "Unfulfilled"
    IN  CASE text = "fulfilled" -> "Delivered"
          [] text = "partial" -> "Partially Shipped"
          [] text = "Unfulfilled" -> "Processing"
          [] OTHER -> text

\* suggestions.unshift(item)
Unshift(items, item) == <<item>> \o items

\* server-copy.js: Return Order for a delivered order of at most 30 days
trackReply_copy(data) ==
    LET base == <<"Browse Products", "Help">>
        more == IF data.count > 1 THEN Unshift(base, "View Other Orders") ELSE base
        label == statusText(data.fulfillment_status)
    IN  [label |-> label,
         suggestions |-> IF label = "Delivered" /\ daysSince(data.elapsed) <= 30
                         THEN Unshift(more, "Return Order")
                         ELSE more]

\* server-fixed.js and part_001: order.fulfillment_status || 'Pending', fixed suggestions
trackReply_fixed(data) ==
    [label |-> IF Truthy(data.fulfillment_status) THEN data.fulfillment_status.s
               ELSE "Pending",
     suggestions |-> <<"View Details", "Return Order", "Browse Products">>]

trackReply(v, data) == IF v = "copy" THEN trackReply_copy(data) ELSE trackReply_fixed(data)

InitTrack ==
    /\ variant \in Variants
    /\ ordersData \in [fulfillment_status : FulfillmentStates, elapsed : ElapsedHours,
                       count : OrderCounts]
    /\ tracked = NotTracked
    /\ MemoryIdle
    /\ IntentIdle
    /\ OAuthIdle
    /\ HookIdle
    /\ BuildIdle
    /\ CartIdle
    /\ FileIdle

\* executeAction track_order from the return of the orders request
TrackOrder ==
    /\ tracked = NotTracked
    /\ tracked' = trackReply(variant, ordersData)
    /\ UNCHANGED <<variant, ordersData, notTrack>>

NextTrack == TrackOrder

SpecTrack == InitTrack /\ [][NextTrack]_vars

\* the reply offers Return Order
OffersReturn == \E k \in DOMAIN tracked.suggestions : tracked.suggestions[k] = "Return Order"

\* C26: a track_order reply offers Return Order only if the first order is
\* fulfilled, its label is Delivered and at most 30 whole days have passed
\* since its date; an order whose fulfillment state is null is labelled
\* Processing and is not offered the return.
C26_ReturnOnlyDeliveredWithin30Days ==
    tracked # NotTracked =>
        /\ OffersReturn =>
               /\ ordersData.fulfillment_status = JsStr("fulfilled")
               /\ tracked.label = "Delivered"
               /\ ordersData.elapsed < 31 * HoursPerDay
        /\ ordersData.fulfillment_status = JsNull =>
               /\ tracked.label = "Processing"
               /\ ~OffersReturn

\* C27: every tenant is for the shop its state token was issued for, and a
\* callback whose shop parameter is not the shop stored with its state is
\* answered 403 and creates no tenant.
C27_TenantForShopOfState ==
    /\ \A b \in businessDatabase : callbacks[b.businessId].issuedFor = b.shopDomain
    /\ \A i \in DOMAIN callbacks :
         (callbacks[i].present /\ callbacks[i].shop # callbacks[i].issuedFor) =>
             /\ callbacks[i].status = 403
             /\ \A b \in businessDatabase : b.businessId # i

\* C28: a callback that passed the state check and ended with the error page
\* has left no tenant: no record of the registry has its business id and the
\* shop map does not point to it.
C28_FailedCallbackLeavesNoTenant ==
    \A i \in DOMAIN callbacks :
        (callbacks[i].validated /\ callbacks[i].pc = "done" /\ callbacks[i].status = 500) =>
            /\ \A b \in businessDatabase : b.businessId # i
            /\ \A shop \in DOMAIN shopToBusinessMap : shopToBusinessMap[shop] # i

(***************************************************************************)
(* The keys of a conversation.  Strings are sequences of characters, so    *)
(* that joining and sanitising are computed as the code computes them.     *)
(* Business ids have the form generateBusinessId gives them; a user id is  *)
(* whatever the visitor payload carries as email, id or name.              *)
(***************************************************************************)
MaxUserLen == 2

MaxConvCalls == 2

\* substring(0, 50)
MaxSafeLen == 50

UserChars == {"a", "@", "_"}

\* [a-zA-Z0-9.\-_]
SafeChars == {"a", "_"}

Backends == {"supabase", "file"}

\* 'biz_' + Date.now() + '_' + Math.random().toString(36).substr(2, 4)
BusinessIds ==
    {<<"b", "i", "z", "_", "1", "_", "a">>, <<"b", "i", "z", "_", "1", "_", "a", "b">>}

UserIds == UNION {[1..n -> UserChars] : n \in 1..MaxUserLen}

\* `${businessId}:${userId}` or `${businessId}_${userId}`
memoryKeyString(v, businessId, userId) ==
    businessId \o <<IF v = "copy" THEN ":" ELSE "_">> \o userId

\* userId.replace(/[^a-zA-Z0-9.\-_]/g, '_').substring(0, 50)
safeUserId(userId) ==
    LET replaced == [i \in 1..Len(userId) |->
                        IF userId[i] \in SafeChars THEN userId[i] ELSE "_"]
    IN  SubSeq(replaced, 1, IF Len(replaced) < MaxSafeLen THEN Len(replaced) ELSE MaxSafeLen)

\* path.join(CONVERSATIONS_DIR, `${businessId}_${safeUserId}.json`)
getConversationFilePath(businessId, userId) ==
    <<"conversations", "/">> \o businessId \o <<"_">> \o safeUserId(userId) \o <<".json">>

\* the row of the conversations table: onConflict 'business_id,user_id'
conversationRow(businessId, userId) == <<businessId, userId>>

\* where the loaded persistence module keeps the record of a pair
recordKey(b, businessId, userId) ==
    IF b = "file" THEN getConversationFilePath(businessId, userId)
    ELSE conversationRow(businessId, userId)

\* loadConversationMemory returned null
NoConv == [businessId |-> <<>>, userId |-> <<>>]

InitFiles ==
    /\ variant \in Variants
    /\ backend \in Backends
    /\ conversations = <<>>
    /\ convCall = NoConvCall
    /\ MemoryIdle
    /\ IntentIdle
    /\ OAuthIdle
    /\ HookIdle
    /\ BuildIdle
    /\ CartIdle
    /\ TrackIdle

\* saveConversationMemory(businessId, userId, memory); data is the record
\* the call replaced
SaveConversation ==
    /\ convCall.n < MaxConvCalls
    /\ \E businessId \in BusinessIds, userId \in UserIds :
        LET key == recordKey(backend, businessId, userId)
            old == IF key \in DOMAIN conversations THEN conversations[key] ELSE NoConv
            data == [businessId |-> businessId, userId |-> userId]
        IN  /\ conversations' =
                   [k \in DOMAIN conversations \cup {key} |->
                       IF k = key THEN data ELSE conversations[k]]
            /\ convCall' = [n |-> convCall.n + 1, op |-> "save", businessId |-> businessId,
                            userId |-> userId, data |-> old]
    /\ UNCHANGED <<variant, backend, notFile>>

\* loadConversationMemory(businessId, userId); data is the record returned
LoadConversation ==
    /\ convCall.n < MaxConvCalls
    /\ \E businessId \in BusinessIds, userId \in UserIds :
        LET key == recordKey(backend, businessId, userId)
        IN  convCall' = [n |-> convCall.n + 1, op |-> "load", businessId |-> businessId,
                         userId |-> userId,
                         data |-> IF key \in DOMAIN conversations THEN conversations[key]
                                  ELSE NoConv]
    /\ UNCHANGED <<variant, backend, conversations, notFile>>

NextFiles ==
    \/ SaveConversation
    \/ LoadConversation

SpecFiles == InitFiles /\ [][NextFiles]_vars

\* two different pairs have different session-map keys
SessionKeysDiffer ==
    \A b1 \in BusinessIds, b2 \in BusinessIds, u1 \in UserIds, u2 \in UserIds :
        <<b1, u1>> # <<b2, u2>> =>
            memoryKeyString(variant, b1, u1) # memoryKeyString(variant, b2, u2)

\* C29: two different (tenant, user) pairs have different session-map keys,
\* and a save or a load of one pair never replaces or returns the record
\* another pair saved.
C29_PairsKeepOwnConversation ==
    /\ SessionKeysDiffer
    /\ convCall.data # NoConv =>
           /\ convCall.data.businessId = convCall.businessId
           /\ convCall.data.userId = convCall.userId

=============================================================================
